---- MODULE Spec2Model ----
(***************************************************************************)
(* Model of the lesson1 cash-machine homework (src/lesson1/hw.py):         *)
(* JsonStorage, ConsoleView and ATMController, driven line by line         *)
(* through the console.  Text is modelled as sequences of one-character    *)
(* strings so that strip(), isdigit(), zfill(), Decimal parsing and        *)
(* format_money are computed, not assumed.                                 *)
(***************************************************************************)
EXTENDS Integers, Sequences, FiniteSets, TLC

VARIABLES
    input,      \* the line the last step read from stdin (<<>> when it read none)
    pc,         \* where the controller is blocked (which prompt), or done/eof/crash
    file,       \* the backing file atm_data.json
    account,    \* the Account object held by the running flow: <<>> or <<record>>
    firstRun,   \* TRUE while run() is in its first-run branch
    locals,     \* local variables of the running flow_create_account or flow_login
    output,     \* the messages written to stdout by the last step, in order
    writes,     \* number of JsonStorage.save calls made by the last step
    shown,      \* how many times each account number was revealed on screen
    tmp,        \* the temporary file atm_data.json.tmp that save() writes
    procs,      \* the processes that call JsonStorage directly, each with its position
    io,         \* one call of lesson1.io.stdin: its arguments, its out stream, its result
    fan,        \* the SmartFanApp of lesson2/hw.py with its clock
    ledger      \* what the console told each holder: amounts credited less amounts
                \* paid out, and the balance when the holder's last session ended

\* the state of one controller at its console
atmVars == <<input, pc, account, firstRun, locals, output, writes, shown, io, fan,
             ledger>>

\* the state of the processes that share the store
storeVars == <<tmp, procs, io, fan, ledger>>

\* what a step of the controller leaves alone
sideVars == <<tmp, procs, io, fan>>

\* the state of the cash machine as a whole
bankVars == <<input, pc, file, account, firstRun, locals, output, writes, shown, tmp, procs,
              ledger>>

vars == <<input, pc, file, account, firstRun, locals, output, writes, shown, tmp, procs,
          io, fan, ledger>>

\* a text stream nothing was written to
NoStream == [text |-> <<>>, written |-> 0, flushed |-> 0]

\* no call of stdin() is running
NoIo == [pc |-> "idle", prompt |-> <<>>, flush |-> FALSE, out |-> NoStream,
         line |-> <<>>, ret |-> <<>>, exc |-> ""]

\* MIN_MODE and MAX_MODE of lesson2/hw.py
MinMode == 0
MaxMode == 3

Modes == MinMode..MaxMode

\* Stats(): a statistics object as its default factories build it
NewStats == [mode_changes |-> [m \in Modes |-> 0],
             time_in_mode_s |-> [m \in Modes |-> 0],
             last_mode |-> 0,
             last_ts |-> <<>>]

\* a call that returned nothing yet
NoRet == [kind |-> "", mode |-> 0, label |-> ""]

\* no SmartFanApp is constructed: a Fan() and a clock at 0
NoFan == [built |-> FALSE, mode |-> 0, stats |-> NewStats, history |-> <<>>,
          clock |-> 0, born |-> 0, switched |-> <<>>,
          op |-> "", arg |-> 0, ret |-> NoRet, exc |-> ""]

---------------------------------------------------------------------------
(* Bounds of the model *)

\* the largest balance, in cents, a deposit may reach
MaxBalance == 3

\* the largest balance, in cents, when two controllers share the store
MaxDeposits == 1

\* the longest history of the fan
MaxHistory == 3

\* the largest value the clock of the fan reaches
MaxClock == 2

\* the longest history of the fan when only history_lines is looked at
MaxEvents == 12

---------------------------------------------------------------------------
(* Text helpers *)

Digits == {"0", "1", "2", "3", "4", "5", "6", "7", "8", "9"}

DigitVal(c) ==
    CASE c = "0" -> 0 [] c = "1" -> 1 [] c = "2" -> 2 [] c = "3" -> 3
      [] c = "4" -> 4 [] c = "5" -> 5 [] c = "6" -> 6 [] c = "7" -> 7
      [] c = "8" -> 8 [] c = "9" -> 9

DigitChar(d) == <<"0", "1", "2", "3", "4", "5", "6", "7", "8", "9">>[d + 1]

Whitespace == {" ", "\t"}

RECURSIVE LStrip(_)
LStrip(s) ==
    IF s # <<>> /\ Head(s) \in Whitespace THEN LStrip(Tail(s)) ELSE s

RECURSIVE RStrip(_)
RStrip(s) ==
    IF s # <<>> /\ s[Len(s)] \in Whitespace
    THEN RStrip(SubSeq(s, 1, Len(s) - 1))
    ELSE s

\* str.strip()
Strip(s) == RStrip(LStrip(s))

\* str.isdigit(): non-empty and every character a digit
IsDigit(s) == s # <<>> /\ \A i \in 1..Len(s) : s[i] \in Digits

\* str(n) for n >= 0
RECURSIVE Str(_)
Str(n) == IF n < 10 THEN <<DigitChar(n)>> ELSE Str(n \div 10) \o <<DigitChar(n % 10)>>

\* int(s) for a digit string
RECURSIVE Int10(_)
Int10(s) ==
    IF s = <<>> THEN 0
    ELSE 10 * Int10(SubSeq(s, 1, Len(s) - 1)) + DigitVal(s[Len(s)])

\* str.zfill(width)
ZFill(s, width) ==
    IF Len(s) >= width THEN s ELSE [i \in 1..(width - Len(s)) |-> "0"] \o s

\* Mutant: nothing is replaced
Replace_Nothing(s, old, new) == s

\* str.replace, for one-character old and new
Replace(s, old, new) == [i \in 1..Len(s) |-> IF s[i] = old THEN new ELSE s[i]]

---------------------------------------------------------------------------
(* decimal.Decimal as used by ConsoleView.ask_money_amount *)

\* digits of precision of the default decimal context
DecimalPrec == 28

RECURSIVE Pow10(_)
Pow10(k) == IF k = 0 THEN 1 ELSE 10 * Pow10(k - 1)

\* the longest coefficient kept by its value; a longer one is kept by the
\* number of its digits only
IntDigits == 9

\* a digit string without its leading zeros
RECURSIVE Significant(_)
Significant(s) == IF s # <<>> /\ s[1] = "0" THEN Significant(Tail(s)) ELSE s

\* str.lower() on the letters the special values are spelled with
LowerChar(c) ==
    CASE c = "N" -> "n" [] c = "A" -> "a" [] c = "I" -> "i" [] c = "F" -> "f"
      [] c = "T" -> "t" [] c = "Y" -> "y" [] c = "S" -> "s" [] c = "E" -> "e"
      [] OTHER -> c

Lower(s) == [i \in 1..Len(s) |-> LowerChar(s[i])]

\* first position of a character of cs in s, 0 when there is none
IndexOf(s, cs) ==
    IF \E i \in 1..Len(s) : s[i] \in cs
    THEN CHOOSE i \in 1..Len(s) : s[i] \in cs /\ \A j \in 1..(i - 1) : s[j] \notin cs
    ELSE 0

AllDigits(s) == \A i \in 1..Len(s) : s[i] \in Digits

Invalid == [kind |-> "invalid", neg |-> FALSE, coeff |-> 0, digits |-> 0, exp |-> 0]

\* Decimal(raw): sign, coefficient and exponent of a numeric string, or a
\* special value, or invalid (InvalidOperation); digits is the number of
\* digits of the coefficient, and a coefficient of more than IntDigits
\* digits has no value in the model (coeff is -1)
ParseDecimal(raw) ==
    LET Number(neg, intp, frac, hasExp, expo) ==
            LET edig == IF expo # <<>> /\ expo[1] \in {"+", "-"} THEN Tail(expo) ELSE expo
            IN  IF /\ AllDigits(intp) /\ AllDigits(frac)
                   /\ Len(intp) + Len(frac) >= 1
                   /\ (hasExp => IsDigit(edig))
                THEN [kind |-> "num", neg |-> neg,
                      coeff |-> IF Len(Significant(intp \o frac)) <= IntDigits
                                THEN Int10(intp \o frac) ELSE 0 - 1,
                      digits |-> Len(Significant(intp \o frac)),
                      exp |-> (IF ~hasExp THEN 0
                               ELSE IF expo[1] = "-" THEN 0 - Int10(edig)
                               ELSE Int10(edig)) - Len(frac)]
                ELSE Invalid
        Mantissa(neg, mant, dot, hasExp, expo) ==
            Number(neg,
                   IF dot = 0 THEN mant ELSE SubSeq(mant, 1, dot - 1),
                   IF dot = 0 THEN <<>> ELSE SubSeq(mant, dot + 1, Len(mant)),
                   hasExp, expo)
        Split(neg, mant, hasExp, expo) ==
            Mantissa(neg, mant, IndexOf(mant, {"."}), hasExp, expo)
        Numeric(neg, body, epos) ==
            Split(neg,
                  IF epos = 0 THEN body ELSE SubSeq(body, 1, epos - 1),
                  epos # 0,
                  IF epos = 0 THEN <<>> ELSE SubSeq(body, epos + 1, Len(body)))
        Lowered(neg, body, low) ==
            IF low \in {<<"i", "n", "f">>, <<"i", "n", "f", "i", "n", "i", "t", "y">>}
            THEN [kind |-> "inf", neg |-> neg, coeff |-> 0, digits |-> 0, exp |-> 0]
            ELSE IF \/ (Len(low) >= 3 /\ SubSeq(low, 1, 3) = <<"n", "a", "n">>
                          /\ AllDigits(SubSeq(low, 4, Len(low))))
                    \/ (Len(low) >= 4 /\ SubSeq(low, 1, 4) = <<"s", "n", "a", "n">>
                          /\ AllDigits(SubSeq(low, 5, Len(low))))
            THEN [kind |-> "nan", neg |-> neg, coeff |-> 0, digits |-> 0, exp |-> 0]
            ELSE Numeric(neg, body, IndexOf(low, {"e"}))
        Unsigned(neg, body) == Lowered(neg, body, Lower(body))
    IN  IF raw # <<>> /\ raw[1] \in {"+", "-"}
        THEN Unsigned(raw[1] = "-", Tail(raw))
        ELSE Unsigned(FALSE, raw)

\* n / p rounded to the nearest integer, ties to the even one (ROUND_HALF_EVEN)
RoundHalfEven(n, p) ==
    LET q == n \div p
        r == n % p
    IN  IF 2 * r > p \/ (2 * r = p /\ q % 2 = 1) THEN q + 1 ELSE q

\* (d * 100).quantize(Decimal("1")) needs more digits than the context has:
\* quantize raises InvalidOperation
QuantizeOverflows(d) ==
    d.digits > 0 /\ d.digits + 2 + d.exp > DecimalPrec

\* int((d * 100).quantize(Decimal("1"))) for a finite d >= 0
ToCents(d) ==
    IF d.coeff = 0 THEN 0
    ELSE IF d.exp >= 0 THEN d.coeff * 100 * Pow10(d.exp)
    ELSE RoundHalfEven(d.coeff * 100, Pow10(0 - d.exp))

\* One pass of the loop of ask_money_amount on one input line:
\* an amount in cents, an error message and a new prompt, or an exception
MoneyOutcome(line) ==
    LET Classify(d) ==
            IF d.kind = "invalid"
            THEN [res |-> "retry", err |-> "error_bad_number", cents |-> 0]
            ELSE IF d.kind \in {"nan", "inf"}
            THEN [res |-> "retry", err |-> "error_bad_value", cents |-> 0]
            ELSE IF d.neg /\ d.coeff # 0
            THEN [res |-> "retry", err |-> "error_negative", cents |-> 0]
            ELSE IF QuantizeOverflows(d)
            THEN [res |-> "raise", err |-> "InvalidOperation", cents |-> 0]
            ELSE [res |-> "ok", err |-> "", cents |-> ToCents(d)]
    IN  Classify(ParseDecimal(Replace(Strip(line), ",", ".")))

\* ConsoleView.format_money
FormatMoney(cents) ==
    LET sign == IF cents < 0 THEN <<"-">> ELSE <<>>
        a    == IF cents < 0 THEN 0 - cents ELSE cents
    IN  sign \o Str(a \div 100) \o <<".">> \o ZFill(Str(a % 100), 2)

---------------------------------------------------------------------------
(* Credentials: ATMController._hash_pin, _make_pin_record, _verify_pin *)

\* secrets.token_bytes(16)
SaltLen == 16

\* length of a SHA-256 digest in bytes
DigestLen == 32

HexDigits == <<"0", "1", "2", "3", "4", "5", "6", "7", "8", "9",
               "a", "b", "c", "d", "e", "f">>

HexVal(c) ==
    CASE c = "a" -> 10 [] c = "b" -> 11 [] c = "c" -> 12 [] c = "d" -> 13
      [] c = "e" -> 14 [] c = "f" -> 15 [] OTHER -> DigitVal(c)

\* bytes.hex(): two lowercase hexadecimal characters per byte
Hex(bytes) ==
    [i \in 1..(2 * Len(bytes)) |->
        IF i % 2 = 1 THEN HexDigits[(bytes[(i + 1) \div 2] \div 16) + 1]
                     ELSE HexDigits[(bytes[i \div 2] % 16) + 1]]

\* bytes.fromhex()
FromHex(text) ==
    [i \in 1..(Len(text) \div 2) |-> 16 * HexVal(text[2 * i - 1]) + HexVal(text[2 * i])]

\* str.encode("utf-8") of a string of ASCII digits
EncodeUtf8(s) == [i \in 1..Len(s) |-> 48 + DigitVal(s[i])]

\* hashlib.sha256(message).digest(), as a collision-free digest of DigestLen
\* bytes: the message (always shorter than a digest here: a salt and at
\* most 8 PIN bytes), zero padding and the message length
Sha256(message) ==
    message \o [i \in 1..(DigestLen - Len(message) - 1) |-> 0] \o <<Len(message)>>

\* Mutant: the PIN is left out of the hashed message
HashPin_SaltOnly(pin, salt) == Sha256(salt)

\* _hash_pin: sha256(salt + pin.encode("utf-8"))
HashPin(pin, salt) == Sha256(salt \o EncodeUtf8(pin))

\* _make_pin_record with the salt that secrets.token_bytes returned
MakePinRecord(pin, salt) == <<Hex(salt), Hex(HashPin(pin, salt))>>

\* Mutant: the comparison accepts any digest
CompareDigest_Always(a, b) == TRUE

\* secrets.compare_digest
CompareDigest(a, b) == a = b

\* Mutant: the result of the verification is ignored
VerifyPin_Always(pin, salt_hex, hash_hex) == TRUE

VerifyPin(pin, salt_hex, hash_hex) ==
    CompareDigest(HashPin(pin, FromHex(salt_hex)), FromHex(hash_hex))

---------------------------------------------------------------------------
(* Account and JsonStorage *)

\* Account | None
None == <<>>
Some(x) == <<x>>

MakeAccount(number, name, surname, id_number, salt_hex, hash_hex, balance, created) ==
    [account_number |-> number, name |-> name, surname |-> surname,
     id_number |-> id_number, pin_salt_hex |-> salt_hex, pin_hash_hex |-> hash_hex,
     balance_cents |-> balance, created_at |-> created]

\* dataclasses.asdict(account)
AsDict(a) ==
    [account_number |-> a.account_number, name |-> a.name, surname |-> a.surname,
     id_number |-> a.id_number, pin_salt_hex |-> a.pin_salt_hex,
     pin_hash_hex |-> a.pin_hash_hex, balance_cents |-> a.balance_cents,
     created_at |-> a.created_at]

\* Mutant: name and surname change places when the record is read back
FromRaw_Swapped(raw) ==
    MakeAccount(raw.account_number, raw.surname, raw.name, raw.id_number,
                raw.pin_salt_hex, raw.pin_hash_hex, raw.balance_cents, raw.created_at)

\* Account(**raw)
FromRaw(raw) ==
    MakeAccount(raw.account_number, raw.name, raw.surname, raw.id_number,
                raw.pin_salt_hex, raw.pin_hash_hex, raw.balance_cents, raw.created_at)

\* {"accounts": {}}
EmptyDoc == [accounts |-> <<>>]

\* A file is modelled by whether it exists and by what json.load makes of its
\* text: kind is "garbage" for text that is not JSON, else the Python type of
\* the parsed value ("dict", "list", "str", "int", "null"); doc is that value
\* (a dict as a record, a list as a sequence of strings, a str as a sequence
\* of characters); mapping says whether doc["accounts"] is itself a dict.
FileOf(kind, mapping, doc) ==
    [exists |-> TRUE, kind |-> kind, mapping |-> mapping, doc |-> doc]

\* no file at self.path
NoFile == [exists |-> FALSE, kind |-> "dict", mapping |-> TRUE, doc |-> EmptyDoc]

\* the characters of the key "accounts"
AccountsKey == <<"a", "c", "c", "o", "u", "n", "t", "s">>

\* sub in s, for two str values
Contains(s, sub) ==
    \E i \in 0..(Len(s) - Len(sub)) : SubSeq(s, i + 1, i + Len(sub)) = sub

\* "accounts" in data, for the containers json.load may return
HasAccountsKey(f) ==
    CASE f.kind = "dict" -> "accounts" \in DOMAIN f.doc
      [] f.kind = "list" -> \E i \in DOMAIN f.doc : f.doc[i] = "accounts"
      [] f.kind = "str"  -> Contains(f.doc, AccountsKey)
      [] OTHER -> FALSE

Returned(data) == [err |-> "", data |-> data]
Raised(err) == [err |-> err, data |-> EmptyDoc]

\* Mutant: a missing file is opened all the same
LoadOutcome_NoExistsCheck(f) ==
    IF ~f.exists THEN Raised("FileNotFoundError")
    ELSE IF f.kind = "dict" /\ HasAccountsKey(f) /\ f.mapping THEN Returned(f.doc)
    ELSE Returned(EmptyDoc)

\* load(): what it returns, or the exception that leaves it
LoadOutcome(f) ==
    IF ~f.exists THEN Returned(EmptyDoc)
    ELSE IF f.kind = "garbage" THEN Raised("JSONDecodeError")
    ELSE IF f.kind \in {"int", "null"} THEN Raised("TypeError")
    ELSE IF ~HasAccountsKey(f) THEN Returned(EmptyDoc)
    ELSE IF f.kind # "dict" THEN Raised("TypeError")
    ELSE IF ~f.mapping THEN Returned(EmptyDoc)
    ELSE Returned(f.doc)

\* load() of a file that is missing or was written by save()
Load(f) == LoadOutcome(f).data

\* the temporary file is written and renamed over the path
Save(doc) == FileOf("dict", TRUE, doc)

\* no file at self.path + ".tmp"
NoTmp == [exists |-> FALSE, complete |-> FALSE, doc |-> EmptyDoc]

\* Mutant: the store is taken to hold accounts whatever the file says
HasAnyAccounts_Always(f) == TRUE

HasAnyAccounts(f) == DOMAIN Load(f).accounts # {}

\* Mutant: no number is ever found in the store
AccountExists_Never(f, number) == FALSE

\* Mutant: every number is found in the store
AccountExists_Always(f, number) == TRUE

AccountExists(f, number) == number \in DOMAIN Load(f).accounts

GetAccount(f, number) ==
    LET Lookup(data) ==
            IF number \in DOMAIN data.accounts
            THEN Some(FromRaw(data.accounts[number]))
            ELSE None
    IN  Lookup(Load(f))

\* Mutant: the mapping of accounts is replaced by the one account
PutAccount_Only(doc, a) ==
    [doc EXCEPT !.accounts = [k \in {a.account_number} |-> AsDict(a)]]

\* data["accounts"][account.account_number] = asdict(account)
PutAccount(doc, a) ==
    [doc EXCEPT !.accounts =
        [k \in DOMAIN doc.accounts \cup {a.account_number} |->
            IF k = a.account_number THEN AsDict(a) ELSE doc.accounts[k]]]

\* Mutant: the document is changed in memory and never saved
UpsertAccount_NoSave(f, a) == f

UpsertAccount(f, a) == Save(PutAccount(Load(f), a))

\* Mutant: the draw is not padded
Candidate_NoPad(n, digits) == Str(n)

\* str(n).zfill(digits) of one draw n of secrets.randbelow(10**digits)
Candidate(n, digits) == ZFill(Str(n), digits)

---------------------------------------------------------------------------
(* ConsoleView: validated input and messages *)

\* one line written to stdout: which message, and the text put into it
Msg(kind, text) == [kind |-> kind, text |-> text]

\* one pass of the loop of ask_text on one input line
TextOutcome(line, min_len) ==
    LET Check(s) ==
            IF Len(s) >= min_len THEN [ok |-> TRUE, value |-> s, err |-> ""]
            ELSE [ok |-> FALSE, value |-> <<>>, err |-> "error_min_chars"]
    IN  Check(Strip(line))

\* Mutant: the upper limit is not tested
DigitsOutcome_NoMax(line, min_len, max_len) ==
    LET Check(s) ==
            IF ~IsDigit(s)
            THEN [ok |-> FALSE, value |-> <<>>, err |-> "error_only_digits"]
            ELSE IF Len(s) < min_len
            THEN [ok |-> FALSE, value |-> <<>>, err |-> "error_min_digits"]
            ELSE [ok |-> TRUE, value |-> s, err |-> ""]
    IN  Check(Strip(line))

\* one pass of the loop of ask_digits on one input line
DigitsOutcome(line, min_len, max_len) ==
    LET Check(s) ==
            IF ~IsDigit(s)
            THEN [ok |-> FALSE, value |-> <<>>, err |-> "error_only_digits"]
            ELSE IF Len(s) < min_len
            THEN [ok |-> FALSE, value |-> <<>>, err |-> "error_min_digits"]
            ELSE IF Len(s) > max_len
            THEN [ok |-> FALSE, value |-> <<>>, err |-> "error_max_digits"]
            ELSE [ok |-> TRUE, value |-> s, err |-> ""]
    IN  Check(Strip(line))

\* ask_pin_create and ask_pin_login: 4 to 8 digits
PinOutcome(line) == DigitsOutcome(line, 4, 8)

\* show_balance
ShowBalance(balance) == <<Msg("balance", FormatMoney(balance))>>

\* Mutant: the account number is printed a second time
ShowAccountCreated_Twice(number) ==
    <<Msg("account_created", <<>>), Msg("account_number", number),
      Msg("warn_shown_once", <<>>), Msg("account_number", number)>>

\* show_account_created
ShowAccountCreated(number) ==
    <<Msg("account_created", <<>>), Msg("warn_shown_once", <<>>),
      Msg("account_number", number)>>

\* the text stdin() writes before it blocks at the prompt named p
Prompt(p) == <<Msg(p, <<>>)>>

---------------------------------------------------------------------------
(* Input lines the environment may type, and the values it may supply *)

NameLines    == {<<"A", "l">>, <<" ", "A", "l", " ">>, <<" ">>}
SurnameLines == {<<"M">>, <<>>}
IdLines      == {<<"I", "D", "1">>, <<"\t">>}
PinLines     == {<<"1", "2", "3", "4">>, <<"1", "2", "3", "4", "5", "6", "7", "8">>,
                 <<"1", "2", "3">>, <<"1", "2", "3", "4", "5", "6", "7", "8", "9">>,
                 <<"1", "2", "a", "4">>, <<>>}
MoneyLines   == {<<"0", ".", "0", "1">>, <<"0", ",", "0", "2">>,
                 <<" ", "0", ".", "0", "1", "5", " ">>, <<"1">>,
                 <<"0">>, <<"0", ".", "0", "0", "5">>, <<"-", "5">>,
                 <<"a", "b", "c">>, <<"N", "a", "N">>, <<"1", "e", "3", "0">>}
MenuLines    == {<<"0">>, <<"1">>, <<"2">>, <<"3">>, <<" ", "3", " ">>, <<"9">>, <<>>}

\* values secrets.randbelow(10**10) may return
Draws == {7, 1234567890}

\* values secrets.token_bytes(16) may return
Salts == {[i \in 1..SaltLen |-> 0], [i \in 1..SaltLen |-> IF i = 1 THEN 171 ELSE 16 + i]}

\* values datetime.now(timezone.utc).isoformat(timespec="seconds") may return
Timestamps == {<<"2", "0", "2", "6">>}

AccountLines == {Candidate(n, 10) : n \in Draws}
                  \cup {<<"7">>, <<"0", "0", "0", "0", "0", "0", "0", "0", "0", "x">>,
                        <<"5", "5", "5", "5", "5", "5", "5", "5", "5", "5">>}

---------------------------------------------------------------------------
(* ATMController *)

\* nothing was credited or paid out and no session has ended
NoLedger == [net |-> [k \in AccountLines |-> 0], atExit |-> [k \in AccountLines |-> None]]

NoLocals ==
    [name |-> <<>>, surname |-> <<>>, id_number |-> <<>>,
     account_number |-> <<>>, pin |-> <<>>, acc_num |-> <<>>]

Init ==
    /\ input = <<>>
    /\ pc = "start"
    /\ file = NoFile
    /\ account = None
    /\ firstRun = FALSE
    /\ locals = NoLocals
    /\ output = <<>>
    /\ writes = 0
    /\ shown = <<>>
    /\ tmp = NoTmp
    /\ procs = <<>>
    /\ io = NoIo
    /\ ledger = NoLedger
    /\ fan = NoFan

\* menu_startup and menu_main: the menu lines and the prompt
MenuStartupOut == <<Msg("menu_startup", <<>>)>>
MenuMainOut == <<Msg("menu_main", <<>>)>>

\* the first lines of flow_create_account, up to the first prompt
CreateOut == <<Msg("create_header", <<>>)>> \o Prompt("prompt_name")

\* the account flow_create_account builds before the first upsert
NewAccount(d, pin, salt, created) ==
    LET Build(rec) ==
            MakeAccount(d.account_number, d.name, d.surname, d.id_number,
                        rec[1], rec[2], 0, created)
    IN  Build(MakePinRecord(pin, salt))

\* Mutants of the credit: the balance is overwritten by the amount; the
\* amount is never added
Credit_Overwrite(a, amount) == [a EXCEPT !.balance_cents = amount]
Credit_Dropped(a, amount) == a

\* account.balance_cents += amount / -= amount
Credit(a, amount) == [a EXCEPT !.balance_cents = a.balance_cents + amount]

\* Mutant: the amount is taken off twice
Debit_Twice(a, amount) == [a EXCEPT !.balance_cents = a.balance_cents - 2 * amount]

Debit(a, amount) == [a EXCEPT !.balance_cents = a.balance_cents - amount]

\* Mutants of the guards of flow_session: a zero amount is let through; the
\* overdraft check is missing, off by one, or also refuses the whole balance
AmountRejected_NegativeOnly(amount) == amount < 0
InsufficientFunds_Never(amount, balance) == FALSE
InsufficientFunds_OffByOne(amount, balance) == amount > balance + 1
InsufficientFunds_AtLeast(amount, balance) == amount >= balance

\* the guards of flow_session
AmountRejected(amount) == amount <= 0
InsufficientFunds(amount, balance) == amount > balance

\* show_account_created has put the number on the screen once more
Reveal(sh, number) ==
    [k \in DOMAIN sh \cup {number} |->
        IF k = number THEN (IF k \in DOMAIN sh THEN sh[k] + 1 ELSE 1) ELSE sh[k]]

\* run(), up to its first blocking read
Run ==
    /\ input' = <<>>
    /\ pc = "start"
    /\ IF ~HasAnyAccounts(file)
       THEN /\ pc' = "pause"
            /\ firstRun' = TRUE
            /\ output' = <<Msg("title", <<>>), Msg("info_first_run", <<>>),
                           Msg("prompt_pause", <<>>)>>
       ELSE /\ pc' = "menu_startup"
            /\ firstRun' = FALSE
            /\ output' = <<Msg("title", <<>>)>> \o MenuStartupOut
    /\ writes' = 0
    /\ UNCHANGED <<file, account, locals, shown>>

\* what readline() gives at the end of the input: '', no line at all
Eof == <<"">>

\* pause() returns on any line, and on end of input just the same: what
\* readline() gave is dropped; flow_create_account begins
Pause ==
    /\ input' \in {<<>>, Eof}
    /\ pc = "pause"
    /\ pc' = "ask_name"
    /\ output' = CreateOut
    /\ writes' = 0
    /\ UNCHANGED <<file, account, firstRun, locals, shown>>

AskName ==
    /\ pc = "ask_name"
    /\ \E line \in NameLines :
         /\ input' = line
         /\ \E r \in {TextOutcome(line, 1)} :
                IF r.ok
                THEN /\ locals' = [locals EXCEPT !.name = r.value]
                     /\ pc' = "ask_surname"
                     /\ output' = Prompt("prompt_surname")
                ELSE /\ output' = <<Msg(r.err, <<>>)>> \o Prompt("prompt_name")
                     /\ UNCHANGED <<pc, locals>>
    /\ writes' = 0
    /\ UNCHANGED <<file, account, firstRun, shown>>

AskSurname ==
    /\ pc = "ask_surname"
    /\ \E line \in SurnameLines :
         /\ input' = line
         /\ \E r \in {TextOutcome(line, 1)} :
                IF r.ok
                THEN /\ locals' = [locals EXCEPT !.surname = r.value]
                     /\ pc' = "ask_id"
                     /\ output' = Prompt("prompt_id")
                ELSE /\ output' = <<Msg(r.err, <<>>)>> \o Prompt("prompt_surname")
                     /\ UNCHANGED <<pc, locals>>
    /\ writes' = 0
    /\ UNCHANGED <<file, account, firstRun, shown>>

\* the id is read; generate_unique_account_number starts
AskId ==
    /\ pc = "ask_id"
    /\ \E line \in IdLines :
         /\ input' = line
         /\ \E r \in {TextOutcome(line, 1)} :
                IF r.ok
                THEN /\ locals' = [locals EXCEPT !.id_number = r.value]
                     /\ pc' = "generate"
                     /\ output' = <<>>
                ELSE /\ output' = <<Msg(r.err, <<>>)>> \o Prompt("prompt_id")
                     /\ UNCHANGED <<pc, locals>>
    /\ writes' = 0
    /\ UNCHANGED <<file, account, firstRun, shown>>

\* one iteration of the loop of generate_unique_account_number(digits=10);
\* when it returns, ask_pin_create begins
GenerateUniqueAccountNumber ==
    /\ input' = <<>>
    /\ pc = "generate"
    /\ \E n \in Draws :
         LET acc == Candidate(n, 10)
         IN  IF ~AccountExists(file, acc)
             THEN /\ locals' = [locals EXCEPT !.account_number = acc]
                  /\ pc' = "ask_pin1"
                  /\ output' = <<Msg("info_create_pin", <<>>)>> \o Prompt("prompt_pin")
             ELSE /\ output' = <<>>
                  /\ UNCHANGED <<pc, locals>>
    /\ writes' = 0
    /\ UNCHANGED <<file, account, firstRun, shown>>

\* ask_pin_create: the first entry
AskPin1 ==
    /\ pc = "ask_pin1"
    /\ \E line \in PinLines :
         /\ input' = line
         /\ \E r \in {PinOutcome(line)} :
                IF r.ok
                THEN /\ locals' = [locals EXCEPT !.pin = r.value]
                     /\ pc' = "ask_pin2"
                     /\ output' = Prompt("prompt_pin_repeat")
                ELSE /\ output' = <<Msg(r.err, <<>>)>> \o Prompt("prompt_pin")
                     /\ UNCHANGED <<pc, locals>>
    /\ writes' = 0
    /\ UNCHANGED <<file, account, firstRun, shown>>

\* Mutant: the second entry is not compared with the first
AskPin2_AnySecond ==
    /\ pc = "ask_pin2"
    /\ \E line \in PinLines, salt \in Salts, created \in Timestamps :
         /\ input' = line
         /\ \E r \in {PinOutcome(line)} :
                IF ~r.ok
                THEN /\ output' = <<Msg(r.err, <<>>)>> \o Prompt("prompt_pin_repeat")
                     /\ writes' = 0
                     /\ UNCHANGED <<pc, locals, account, file, shown>>
                ELSE \E a \in {NewAccount(locals, r.value, salt, created)} :
                     /\ account' = Some(a)
                     /\ file' = UpsertAccount(file, a)
                     /\ writes' = 1
                     /\ shown' = Reveal(shown, a.account_number)
                     /\ output' = ShowAccountCreated(a.account_number)
                                    \o Prompt("prompt_initial_deposit")
                     /\ pc' = "ask_initial_deposit"
                     /\ UNCHANGED locals
    /\ UNCHANGED firstRun

\* ask_pin_create: the second entry; on a match the account is built,
\* persisted and its number shown, and the initial deposit is asked for
AskPin2 ==
    /\ pc = "ask_pin2"
    /\ \E line \in PinLines, salt \in Salts, created \in Timestamps :
         /\ input' = line
         /\ \E r \in {PinOutcome(line)} :
                IF ~r.ok
                THEN /\ output' = <<Msg(r.err, <<>>)>> \o Prompt("prompt_pin_repeat")
                     /\ writes' = 0
                     /\ UNCHANGED <<pc, locals, account, file, shown>>
                ELSE IF locals.pin # r.value
                THEN /\ output' = <<Msg("error_pin_mismatch", <<>>)>> \o Prompt("prompt_pin")
                     /\ pc' = "ask_pin1"
                     /\ locals' = [locals EXCEPT !.pin = <<>>]
                     /\ writes' = 0
                     /\ UNCHANGED <<account, file, shown>>
                ELSE \E a \in {NewAccount(locals, r.value, salt, created)} :
                     /\ account' = Some(a)
                     /\ file' = UpsertAccount(file, a)
                     /\ writes' = 1
                     /\ shown' = Reveal(shown, a.account_number)
                     /\ output' = ShowAccountCreated(a.account_number)
                                    \o Prompt("prompt_initial_deposit")
                     /\ pc' = "ask_initial_deposit"
                     /\ UNCHANGED locals
    /\ UNCHANGED firstRun

\* the initial deposit of flow_create_account; the account is returned and
\* flow_session begins
AskInitialDeposit ==
    /\ pc = "ask_initial_deposit"
    /\ \E line \in MoneyLines :
         /\ input' = line
         /\ \E r \in {MoneyOutcome(line)}, a \in {account[1]} :
                /\ r.res = "ok" => r.cents <= MaxBalance
                /\ CASE r.res = "retry" ->
                          /\ output' = <<Msg(r.err, <<>>)>> \o Prompt("prompt_initial_deposit")
                          /\ writes' = 0
                          /\ UNCHANGED <<pc, account, file, locals>>
                     [] r.res = "raise" ->
                          /\ pc' = "crash"
                          /\ output' = <<>>
                          /\ writes' = 0
                          /\ UNCHANGED <<account, file, locals>>
                     [] r.res = "ok" /\ r.cents > 0 ->
                          /\ account' = Some(Credit(a, r.cents))
                          /\ file' = UpsertAccount(file, Credit(a, r.cents))
                          /\ writes' = 1
                          /\ output' = <<Msg("credited", FormatMoney(r.cents))>>
                                         \o ShowBalance(Credit(a, r.cents).balance_cents)
                                         \o MenuMainOut
                          /\ pc' = "menu_main"
                          /\ locals' = NoLocals
                     [] r.res = "ok" /\ ~(r.cents > 0) ->
                          /\ output' = <<Msg("info_skip_deposit", <<>>)>>
                                         \o ShowBalance(a.balance_cents) \o MenuMainOut
                          /\ writes' = 0
                          /\ pc' = "menu_main"
                          /\ locals' = NoLocals
                          /\ UNCHANGED <<account, file>>
    /\ UNCHANGED <<firstRun, shown>>

\* Mutant: an unknown choice at the startup menu ends run()
StartupMenu_UnknownQuits ==
    /\ pc = "menu_startup"
    /\ \E line \in MenuLines :
         /\ input' = line
         /\ \E choice \in {Strip(line)} :
                CASE choice = <<"1">> ->
                       /\ pc' = "ask_name"
                       /\ output' = CreateOut
                  [] choice = <<"2">> ->
                       /\ pc' = "login_account"
                       /\ output' = <<Msg("login_header", <<>>)>> \o Prompt("prompt_account")
                  [] choice = <<"0">> ->
                       /\ pc' = "done"
                       /\ output' = <<Msg("goodbye", <<>>)>>
                  [] OTHER ->
                       /\ pc' = "done"
                       /\ output' = <<Msg("error_unknown_choice", <<>>)>>
    /\ writes' = 0
    /\ UNCHANGED <<file, account, firstRun, locals, shown>>

\* the startup menu of run() (stores that are not empty)
StartupMenu ==
    /\ pc = "menu_startup"
    /\ \E line \in MenuLines :
         /\ input' = line
         /\ \E choice \in {Strip(line)} :
                CASE choice = <<"1">> ->
                       /\ pc' = "ask_name"
                       /\ output' = CreateOut
                  [] choice = <<"2">> ->
                       /\ pc' = "login_account"
                       /\ output' = <<Msg("login_header", <<>>)>> \o Prompt("prompt_account")
                  [] choice = <<"0">> ->
                       /\ pc' = "done"
                       /\ output' = <<Msg("goodbye", <<>>)>>
                  [] OTHER ->
                       /\ output' = <<Msg("error_unknown_choice", <<>>)>> \o MenuStartupOut
                       /\ UNCHANGED pc
    /\ writes' = 0
    /\ UNCHANGED <<file, account, firstRun, locals, shown>>

\* flow_login: the account number
LoginAccount ==
    /\ pc = "login_account"
    /\ \E line \in AccountLines :
         /\ input' = line
         /\ \E r \in {DigitsOutcome(line, 10, 10)} :
            \E found \in {GetAccount(file, r.value)} :
                IF ~r.ok
                THEN /\ output' = <<Msg(r.err, <<>>)>> \o Prompt("prompt_account")
                     /\ UNCHANGED <<pc, account, locals>>
                ELSE IF found = None
                THEN /\ output' = <<Msg("error_account_not_found", <<>>)>> \o MenuStartupOut
                     /\ pc' = "menu_startup"
                     /\ UNCHANGED <<account, locals>>
                ELSE /\ account' = found
                     /\ locals' = [locals EXCEPT !.acc_num = r.value]
                     /\ pc' = "login_pin"
                     /\ output' = Prompt("prompt_pin")
    /\ writes' = 0
    /\ UNCHANGED <<file, firstRun, shown>>

\* flow_login: the PIN; on success flow_session begins
LoginPin ==
    /\ pc = "login_pin"
    /\ \E line \in PinLines :
         /\ input' = line
         /\ \E r \in {PinOutcome(line)}, a \in {account[1]} :
                IF ~r.ok
                THEN /\ output' = <<Msg(r.err, <<>>)>> \o Prompt("prompt_pin")
                     /\ UNCHANGED <<pc, account, locals>>
                ELSE IF ~VerifyPin(r.value, a.pin_salt_hex, a.pin_hash_hex)
                THEN /\ output' = <<Msg("error_wrong_pin", <<>>)>> \o MenuStartupOut
                     /\ pc' = "menu_startup"
                     /\ account' = None
                     /\ locals' = NoLocals
                ELSE /\ output' = <<Msg("welcome", a.name \o <<" ">> \o a.surname)>>
                                    \o ShowBalance(a.balance_cents) \o MenuMainOut
                     /\ pc' = "menu_main"
                     /\ locals' = NoLocals
                     /\ UNCHANGED account
    /\ writes' = 0
    /\ UNCHANGED <<file, firstRun, shown>>

\* the menu of flow_session; on exit run() either returns (first run) or
\* shows the startup menu again
SessionMenu ==
    /\ pc = "menu_main"
    /\ \E line \in MenuLines :
         /\ input' = line
         /\ \E choice \in {Strip(line)} :
                CASE choice = <<"1">> ->
                       /\ pc' = "ask_deposit"
                       /\ output' = Prompt("prompt_deposit")
                       /\ UNCHANGED account
                  [] choice = <<"2">> ->
                       /\ pc' = "ask_withdraw"
                       /\ output' = Prompt("prompt_withdraw")
                       /\ UNCHANGED account
                  [] choice = <<"3">> ->
                       /\ output' = ShowBalance(account[1].balance_cents) \o MenuMainOut
                       /\ UNCHANGED <<pc, account>>
                  [] choice = <<"0">> ->
                       /\ account' = None
                       /\ IF firstRun
                          THEN /\ pc' = "done"
                               /\ output' = <<Msg("info_session_exit", <<>>),
                                              Msg("goodbye", <<>>)>>
                          ELSE /\ pc' = "menu_startup"
                               /\ output' = <<Msg("info_session_exit", <<>>)>>
                                              \o MenuStartupOut
                  [] OTHER ->
                       /\ output' = <<Msg("error_unknown_choice", <<>>)>> \o MenuMainOut
                       /\ UNCHANGED <<pc, account>>
    /\ writes' = 0
    /\ UNCHANGED <<file, firstRun, locals, shown>>

\* flow_session, choice "1": the amount to deposit
AskDeposit ==
    /\ pc = "ask_deposit"
    /\ \E line \in MoneyLines :
         /\ input' = line
         /\ \E r \in {MoneyOutcome(line)}, a \in {account[1]} :
                /\ r.res = "ok" => a.balance_cents + r.cents <= MaxBalance
                /\ CASE r.res = "retry" ->
                          /\ output' = <<Msg(r.err, <<>>)>> \o Prompt("prompt_deposit")
                          /\ writes' = 0
                          /\ UNCHANGED <<pc, account, file>>
                     [] r.res = "raise" ->
                          /\ pc' = "crash"
                          /\ output' = <<>>
                          /\ writes' = 0
                          /\ UNCHANGED <<account, file>>
                     [] r.res = "ok" /\ AmountRejected(r.cents) ->
                          /\ output' = <<Msg("error_deposit_not_positive", <<>>)>>
                                         \o MenuMainOut
                          /\ pc' = "menu_main"
                          /\ writes' = 0
                          /\ UNCHANGED <<account, file>>
                     [] r.res = "ok" /\ ~AmountRejected(r.cents) ->
                          /\ account' = Some(Credit(a, r.cents))
                          /\ file' = UpsertAccount(file, Credit(a, r.cents))
                          /\ writes' = 1
                          /\ output' = <<Msg("credited", FormatMoney(r.cents))>>
                                         \o ShowBalance(Credit(a, r.cents).balance_cents)
                                         \o MenuMainOut
                          /\ pc' = "menu_main"
    /\ UNCHANGED <<firstRun, locals, shown>>

\* flow_session, choice "2": the amount to withdraw
AskWithdraw ==
    /\ pc = "ask_withdraw"
    /\ \E line \in MoneyLines :
         /\ input' = line
         /\ \E r \in {MoneyOutcome(line)}, a \in {account[1]} :
                CASE r.res = "retry" ->
                       /\ output' = <<Msg(r.err, <<>>)>> \o Prompt("prompt_withdraw")
                       /\ writes' = 0
                       /\ UNCHANGED <<pc, account, file>>
                  [] r.res = "raise" ->
                       /\ pc' = "crash"
                       /\ output' = <<>>
                       /\ writes' = 0
                       /\ UNCHANGED <<account, file>>
                  [] r.res = "ok" /\ AmountRejected(r.cents) ->
                       /\ output' = <<Msg("error_withdraw_not_positive", <<>>)>>
                                      \o MenuMainOut
                       /\ pc' = "menu_main"
                       /\ writes' = 0
                       /\ UNCHANGED <<account, file>>
                  [] r.res = "ok" /\ ~AmountRejected(r.cents)
                       /\ InsufficientFunds(r.cents, a.balance_cents) ->
                       /\ output' = <<Msg("error_insufficient_funds", <<>>)>>
                                      \o ShowBalance(a.balance_cents) \o MenuMainOut
                       /\ pc' = "menu_main"
                       /\ writes' = 0
                       /\ UNCHANGED <<account, file>>
                  [] r.res = "ok" /\ ~AmountRejected(r.cents)
                       /\ ~InsufficientFunds(r.cents, a.balance_cents) ->
                       /\ account' = Some(Debit(a, r.cents))
                       /\ file' = UpsertAccount(file, Debit(a, r.cents))
                       /\ writes' = 1
                       /\ output' = <<Msg("debited", FormatMoney(r.cents))>>
                                      \o ShowBalance(Debit(a, r.cents).balance_cents)
                                      \o MenuMainOut
                       /\ pc' = "menu_main"
    /\ UNCHANGED <<firstRun, locals, shown>>

\* the prompts where stdin() blocks; at end of input it raises EOFError
StdinPrompts ==
    {"ask_name", "ask_surname", "ask_id", "ask_pin1", "ask_pin2",
     "ask_initial_deposit", "menu_startup", "login_account", "login_pin",
     "menu_main", "ask_deposit", "ask_withdraw"}

\* EOFError propagates out of run(): the process ends where it stood
EndOfInput ==
    /\ input' = Eof
    /\ pc \in StdinPrompts
    /\ pc' = "eof"
    /\ output' = <<>>
    /\ writes' = 0
    /\ UNCHANGED <<file, account, firstRun, locals, shown>>

\* the program is started again on the same file
Restart ==
    /\ input' = <<>>
    /\ pc \in {"done", "eof", "crash"}
    /\ pc' = "start"
    /\ account' = None
    /\ firstRun' = FALSE
    /\ locals' = NoLocals
    /\ output' = <<>>
    /\ writes' = 0
    /\ UNCHANGED <<file, shown>>

\* one controller on its own: no other process touches the store
\* where flow_session is blocked
SessionPrompts == {"menu_main", "ask_deposit", "ask_withdraw"}

\* the ledger follows the console: an amount typed and answered with
\* "credited" is added for the holder, one answered with "debited" is taken
\* off, and when a session ends its last balance is noted
Bookkeeping ==
    ledger' =
        IF output' # <<>> /\ output'[1].kind = "credited"
        THEN [ledger EXCEPT !.net[account'[1].account_number] =
                                @ + MoneyOutcome(input').cents]
        ELSE IF output' # <<>> /\ output'[1].kind = "debited"
        THEN [ledger EXCEPT !.net[account'[1].account_number] =
                                @ - MoneyOutcome(input').cents]
        ELSE IF pc \in SessionPrompts /\ pc' \notin SessionPrompts
        THEN [ledger EXCEPT !.atExit[account[1].account_number] =
                                Some(account[1].balance_cents)]
        ELSE ledger

Next ==
    \/ Run /\ Bookkeeping /\ UNCHANGED sideVars
    \/ Pause /\ Bookkeeping /\ UNCHANGED sideVars
    \/ AskName /\ Bookkeeping /\ UNCHANGED sideVars
    \/ AskSurname /\ Bookkeeping /\ UNCHANGED sideVars
    \/ AskId /\ Bookkeeping /\ UNCHANGED sideVars
    \/ GenerateUniqueAccountNumber /\ Bookkeeping /\ UNCHANGED sideVars
    \/ AskPin1 /\ Bookkeeping /\ UNCHANGED sideVars
    \/ AskPin2 /\ Bookkeeping /\ UNCHANGED sideVars
    \/ AskInitialDeposit /\ Bookkeeping /\ UNCHANGED sideVars
    \/ StartupMenu /\ Bookkeeping /\ UNCHANGED sideVars
    \/ LoginAccount /\ Bookkeeping /\ UNCHANGED sideVars
    \/ LoginPin /\ Bookkeeping /\ UNCHANGED sideVars
    \/ SessionMenu /\ Bookkeeping /\ UNCHANGED sideVars
    \/ AskDeposit /\ Bookkeeping /\ UNCHANGED sideVars
    \/ AskWithdraw /\ Bookkeeping /\ UNCHANGED sideVars
    \/ EndOfInput /\ Bookkeeping /\ UNCHANGED sideVars
    \/ Restart /\ Bookkeeping /\ UNCHANGED sideVars

Spec == Init /\ [][Next]_vars

---------------------------------------------------------------------------
(* Properties of the cash machine *)

\* the persisted record of an account number
Stored(f, number) == Load(f).accounts[number]

\* the amount, in cents, that ask_money_amount returns for the line just read
Amount(line) == MoneyOutcome(line).cents
Accepted(line) == MoneyOutcome(line).res = "ok"

\* the stored PIN hash of record rec is the hash of pin under rec's salt
PinMatches(pin, rec) == FromHex(rec.pin_hash_hex) = HashPin(pin, FromHex(rec.pin_salt_hex))

\* how many lines of out show an account number
NumbersShown(out) == Cardinality({i \in DOMAIN out : out[i].kind = "account_number"})

\* C1: whatever the controller is driven through, the balance of every
\* account is at least 0, in the Account held by the running flow and in
\* every persisted record.
C1_BalanceNeverNegative ==
    /\ account # None => account[1].balance_cents >= 0
    /\ \A k \in DOMAIN Load(file).accounts : Stored(file, k).balance_cents >= 0

\* a withdrawal has emptied one account while another one holds money
C1_Witness ==
    /\ pc = "menu_main"
    /\ output[1].kind = "debited"
    /\ account[1].balance_cents = 0
    /\ \E k \in DOMAIN Load(file).accounts : Stored(file, k).balance_cents > 0

\* C2: whenever flow_session waits at the session menu, the persisted record
\* of the bound account equals the in-memory Account in every field.
C2_PersistedAtMenu ==
    pc = "menu_main" =>
        /\ account # None
        /\ AccountExists(file, account[1].account_number)
        /\ Stored(file, account[1].account_number) = AsDict(account[1])

\* the menu is shown after a withdrawal that left part of the balance
C2_Witness ==
    /\ pc = "menu_main"
    /\ output[1].kind = "debited"
    /\ account[1].balance_cents > 0

\* C3: in a session a deposit of d > 0 sets the balance to the balance
\* before plus d, changes no other field, and the persisted record equals
\* the in-memory one right after it.
C3_Deposit ==
    [][(pc = "ask_deposit" /\ Accepted(input') /\ Amount(input') > 0) =>
          /\ pc' = "menu_main"
          /\ account' = Some([account[1] EXCEPT
                 !.balance_cents = account[1].balance_cents + Amount(input')])
          /\ GetAccount(file', account[1].account_number) = account']_vars

\* a deposit was added to a balance that was not 0
C3_Witness ==
    /\ pc = "menu_main"
    /\ output[1].kind = "credited"
    /\ Accepted(input) /\ Amount(input) > 0
    /\ account[1].balance_cents > Amount(input)

\* C4: in a session a withdrawal of w with 0 < w <= balance sets the balance
\* to the balance before minus w and persists it; withdrawing the whole
\* balance is allowed and leaves 0.
C4_Withdraw ==
    [][(/\ pc = "ask_withdraw" /\ Accepted(input')
        /\ 0 < Amount(input') /\ Amount(input') <= account[1].balance_cents) =>
          /\ pc' = "menu_main"
          /\ account' = Some([account[1] EXCEPT
                 !.balance_cents = account[1].balance_cents - Amount(input')])
          /\ GetAccount(file', account[1].account_number) = account'
          /\ output'[1] = Msg("debited", FormatMoney(Amount(input')))]_vars

\* the whole balance, more than one cent, was withdrawn
C4_Witness ==
    /\ pc = "menu_main"
    /\ output[1].kind = "debited"
    /\ Accepted(input) /\ Amount(input) >= 2
    /\ account[1].balance_cents = 0

\* C5: in a session a withdrawal of w > balance reports insufficient funds,
\* leaves the in-memory account and the file unchanged (nothing is written)
\* and the session continues at the menu.
C5_InsufficientFunds ==
    [][(/\ pc = "ask_withdraw" /\ Accepted(input')
        /\ Amount(input') > account[1].balance_cents) =>
          /\ pc' = "menu_main"
          /\ output'[1].kind = "error_insufficient_funds"
          /\ output'[2] = Msg("balance", FormatMoney(account[1].balance_cents))
          /\ account' = account
          /\ file' = file
          /\ writes' = 0]_vars

\* a withdrawal above a balance that is not 0 was refused
C5_Witness ==
    /\ pc = "menu_main"
    /\ output[1].kind = "error_insufficient_funds"
    /\ account[1].balance_cents > 0

\* C6: in a session a deposit or a withdrawal whose parsed amount is 0 is
\* rejected: an error is reported, the balance and the file are unchanged,
\* and the session continues at the menu.
C6_ZeroAmountRejected ==
    [][(pc \in {"ask_deposit", "ask_withdraw"} /\ Accepted(input') /\ Amount(input') = 0) =>
          /\ pc' = "menu_main"
          /\ output'[1].kind = (IF pc = "ask_deposit" THEN "error_deposit_not_positive"
                                ELSE "error_withdraw_not_positive")
          /\ account' = account
          /\ file' = file
          /\ writes' = 0]_vars

\* a deposit that rounds to 0 cents was rejected
C6_Witness ==
    /\ pc = "menu_main"
    /\ output[1].kind = "error_deposit_not_positive"
    /\ input = <<"0", ".", "0", "0", "5">>

\* C7: the controller passes from the startup side into a session by login
\* only when the entered number has 10 digits and is a key of the store and
\* the entered PIN verifies against that record's salt and hash; the account
\* bound is the stored one with the entered number.
C7_LoginSafe ==
    [][(pc \in {"menu_startup", "login_account", "login_pin"} /\ pc' = "menu_main") =>
          /\ pc = "login_pin"
          /\ Len(locals.acc_num) = 10 /\ IsDigit(locals.acc_num)
          /\ locals.acc_num \in DOMAIN Load(file).accounts
          /\ PinOutcome(input').ok
          /\ PinMatches(PinOutcome(input').value, Stored(file, locals.acc_num))
          /\ account' = Some(FromRaw(Stored(file, locals.acc_num)))
          /\ account'[1].account_number = locals.acc_num]_vars

\* a login succeeded while the store held a second account with another PIN
C7_Witness ==
    /\ pc = "menu_main"
    /\ output[1].kind = "welcome"
    /\ \E k \in DOMAIN Load(file).accounts :
         /\ k # account[1].account_number
         /\ ~PinMatches(Strip(input), Stored(file, k))

\* C8: a failed login (a well-formed number that is not in the store, or a
\* well-formed PIN that does not verify) reports an error, binds no session,
\* leaves the file unchanged and returns to the startup menu.
C8_FailedLogin ==
    [][/\ (/\ pc = "login_account"
           /\ DigitsOutcome(input', 10, 10).ok
           /\ DigitsOutcome(input', 10, 10).value \notin DOMAIN Load(file).accounts) =>
             /\ pc' = "menu_startup"
             /\ output'[1].kind = "error_account_not_found"
             /\ account' = None
             /\ file' = file /\ writes' = 0
       /\ (/\ pc = "login_pin"
           /\ PinOutcome(input').ok
           /\ ~PinMatches(PinOutcome(input').value, Stored(file, locals.acc_num))) =>
             /\ pc' = "menu_startup"
             /\ output'[1].kind = "error_wrong_pin"
             /\ account' = None
             /\ file' = file /\ writes' = 0]_vars

\* a wrong PIN was refused for an account that holds money
C8_Witness ==
    /\ pc = "menu_startup"
    /\ output[1].kind = "error_wrong_pin"
    /\ account = None
    /\ \E k \in DOMAIN Load(file).accounts : Stored(file, k).balance_cents > 0

\* C9: in account creation the name, surname and id are collected, then the
\* number is generated, then the PIN is established, then the record is
\* persisted with balance 0 and its number shown, and only then the initial
\* deposit is asked for; every stored account had its number shown exactly
\* once, no other step shows a number, and when input ends at the initial
\* deposit prompt the account is in the store with balance 0.
C9_CreationOrder ==
    /\ [](/\ pc \in {"ask_pin1", "ask_pin2"} =>
               /\ locals.name # <<>> /\ locals.surname # <<>> /\ locals.id_number # <<>>
               /\ Len(locals.account_number) = 10
               /\ ~AccountExists(file, locals.account_number)
          /\ pc = "ask_pin2" => locals.pin # <<>>
          /\ pc = "ask_initial_deposit" =>
               /\ AccountExists(file, locals.account_number)
               /\ Stored(file, locals.account_number).balance_cents = 0
               /\ output[Len(output)].kind = "prompt_initial_deposit"
          /\ DOMAIN shown = DOMAIN Load(file).accounts
          /\ \A k \in DOMAIN shown : shown[k] = 1)
    /\ [][/\ (shown' # shown \/ NumbersShown(output') > 0) =>
               /\ pc = "ask_pin2" /\ pc' = "ask_initial_deposit"
               /\ writes' = 1
               /\ NumbersShown(output') = 1
               /\ \E i \in DOMAIN output' :
                    /\ output'[i] = Msg("account_number", locals.account_number)
                    /\ i < Len(output')
               /\ shown' = Reveal(shown, locals.account_number)
          /\ (pc = "ask_initial_deposit" /\ pc' = "eof") =>
               /\ AccountExists(file', locals.account_number)
               /\ Stored(file', locals.account_number).balance_cents = 0]_vars

\* input ended at the initial deposit prompt of a second account
C9_Witness ==
    /\ pc = "eof"
    /\ account # None
    /\ locals.account_number = account[1].account_number
    /\ Cardinality(DOMAIN Load(file).accounts) = 2

\* C10: when account creation ends, the balance of the returned account is
\* the initial deposit and equals the persisted balance; a deposit of 0 is a
\* skip that writes nothing; a deposit d > 0 gives balance d, persisted.
C10_InitialDeposit ==
    [][(pc = "ask_initial_deposit" /\ pc' = "menu_main") =>
          /\ Accepted(input')
          /\ account'[1].balance_cents = Amount(input')
          /\ Stored(file', account'[1].account_number) = AsDict(account'[1])
          /\ Amount(input') = 0 =>
               /\ writes' = 0 /\ file' = file /\ account' = account
               /\ output'[1].kind = "info_skip_deposit"
          /\ Amount(input') > 0 =>
               /\ writes' = 1
               /\ output'[1] = Msg("credited", FormatMoney(Amount(input')))]_vars

\* the initial deposit was skipped with an amount of 0
C10_Witness ==
    /\ pc = "menu_main"
    /\ output[1].kind = "info_skip_deposit"
    /\ Amount(input) = 0
    /\ account[1].balance_cents = 0

\* the positions of flow_session
SessionPcs == {"menu_main", "ask_deposit", "ask_withdraw"}

\* the positions of flow_login
LoginPcs == {"login_account", "login_pin"}

\* C11: when the store holds no account at the start of run(), the startup
\* menu is never shown: the controller pauses, goes to account creation,
\* runs one session bound to the account just created, and run() returns as
\* soon as that session is exited, without passing through the startup menu
\* or a login.
C11_FirstRun ==
    [][/\ (pc = "start" /\ pc' # "start" /\ DOMAIN Load(file).accounts = {}) =>
             (firstRun' /\ pc' = "pause")
       /\ (firstRun /\ pc = "pause" /\ pc' # "pause") => pc' = "ask_name"
       /\ firstRun' =>
             /\ pc' \notin {"menu_startup"} \cup LoginPcs
             /\ \A i \in DOMAIN output' : output'[i].kind # "menu_startup"
       /\ (firstRun /\ pc' = "menu_main" /\ pc \notin SessionPcs) =>
             /\ pc = "ask_initial_deposit"
             /\ account' # None
             /\ account'[1].account_number = locals.account_number
             /\ Stored(file', locals.account_number) = AsDict(account'[1])
       /\ (firstRun /\ pc = "menu_main" /\ Strip(input') = <<"0">>) =>
             (pc' = "done" /\ account' = None)
       /\ (firstRun /\ pc' = "done" /\ pc # "done") =>
             (pc = "menu_main" /\ Strip(input') = <<"0">>)]_vars

\* a first run has returned after its one session, with its account stored
C11_Witness ==
    /\ pc = "done"
    /\ firstRun
    /\ Cardinality(DOMAIN Load(file).accounts) = 1
    /\ output[1].kind = "info_session_exit"

\* C12: when the store holds an account at the start of run(), run() returns
\* only by the choice "0" at the startup menu; every exit of a session and
\* every failed login returns to the startup menu, an unknown choice at the
\* startup menu reports an error and stays there, and a session is entered
\* only from account creation or from a login whose PIN verified.
C12_MenuLoop ==
    [][/\ (pc = "start" /\ pc' # "start" /\ DOMAIN Load(file).accounts # {}) =>
             (~firstRun' /\ pc' = "menu_startup")
       /\ (~firstRun /\ pc' = "done" /\ pc # "done") =>
             (pc = "menu_startup" /\ Strip(input') = <<"0">>)
       /\ (~firstRun /\ pc \in SessionPcs /\ pc' \notin SessionPcs \cup {"eof", "crash"}) =>
             /\ pc = "menu_main" /\ Strip(input') = <<"0">>
             /\ pc' = "menu_startup"
             /\ output'[Len(output')].kind = "menu_startup"
       /\ (~firstRun /\ pc = "menu_main" /\ Strip(input') = <<"0">>) =>
             pc' = "menu_startup"
       /\ (~firstRun /\ pc \in LoginPcs /\ pc' \notin LoginPcs \cup {"menu_main", "eof"}) =>
             /\ pc' = "menu_startup"
             /\ output'[1].kind \in {"error_account_not_found", "error_wrong_pin"}
             /\ output'[Len(output')].kind = "menu_startup"
       /\ (/\ ~firstRun /\ pc = "menu_startup" /\ pc' # "eof"
           /\ Strip(input') \notin {<<"0">>, <<"1">>, <<"2">>}) =>
             /\ pc' = "menu_startup"
             /\ output'[1].kind = "error_unknown_choice"
       /\ (~firstRun /\ pc' = "menu_main" /\ pc \notin SessionPcs) =>
             \/ pc = "ask_initial_deposit"
             \/ /\ pc = "login_pin"
                /\ PinOutcome(input').ok
                /\ PinMatches(PinOutcome(input').value, Stored(file, locals.acc_num))]_vars

\* on a store that held an account at start, a session was exited back to
\* the startup menu
C12_Witness ==
    /\ ~firstRun
    /\ pc = "menu_startup"
    /\ output[1].kind = "info_session_exit"
    /\ DOMAIN Load(file).accounts # {}

\* the number of creations that persisted an account and showed its number
RECURSIVE Creations(_)
Creations(sh) ==
    IF DOMAIN sh = {} THEN 0
    ELSE LET k == CHOOSE x \in DOMAIN sh : TRUE
         IN  sh[k] + Creations([j \in DOMAIN sh \ {k} |-> sh[j]])

\* C14: for one controller started on an empty store, every key of the
\* stored accounts mapping is a string of 10 digits equal to the
\* account_number field of its record, the number of stored accounts equals
\* the number of completed creations, and no creation overwrites an account
\* stored before it.
C14_StoreKeys ==
    /\ [](/\ \A k \in DOMAIN Load(file).accounts :
                /\ Len(k) = 10
                /\ IsDigit(k)
                /\ Stored(file, k).account_number = k
          /\ Cardinality(DOMAIN Load(file).accounts) = Creations(shown))
    /\ [][(pc = "ask_pin2" /\ pc' = "ask_initial_deposit") =>
             /\ account'[1].account_number \notin DOMAIN Load(file).accounts
             /\ DOMAIN Load(file').accounts =
                    DOMAIN Load(file).accounts \cup {account'[1].account_number}
             /\ \A k \in DOMAIN Load(file).accounts :
                    Stored(file', k) = Stored(file, k)]_vars

\* two creations were completed and both accounts are in the store
C14_Witness ==
    /\ Cardinality(DOMAIN Load(file).accounts) = 2
    /\ Creations(shown) = 2
    /\ pc = "ask_initial_deposit"

---------------------------------------------------------------------------
(* JsonStorage called directly: each process of procs makes one call at a  *)
(* time; save() is followed through the temporary file and the rename, and *)
(* a process may be killed between any two steps.                          *)

\* a process that is in no call
Idle ==
    [pc |-> "idle", op |-> "", number |-> <<>>, acc |-> None, data |-> EmptyDoc,
     before |-> NoFile, ret |-> <<>>, err |-> "", account |-> None]

\* the accounts the callers pass to upsert_account
StoreAccounts ==
    {MakeAccount(Candidate(7, 10), <<"A">>, <<"B">>, <<"I", "D">>, <<"0", "0">>,
                 <<"1", "1">>, 100, <<"2", "0", "2", "5">>),
     MakeAccount(Candidate(7, 10), <<"C">>, <<"D">>, <<"I", "D">>, <<"0", "0">>,
                 <<"1", "1">>, 0, <<"2", "0", "2", "6">>),
     MakeAccount(Candidate(1234567890, 10), <<"E">>, <<"F">>, <<"I", "D">>, <<"0", "0">>,
                 <<"1", "1">>, 5, <<"2", "0", "2", "6">>)}

\* the numbers the callers ask for
StoreNumbers ==
    {a.account_number : a \in StoreAccounts}
        \cup {<<"0", "0", "0", "0", "0", "0", "0", "0", "0", "1">>}

\* the documents the callers pass to save
StoreDocs ==
    {EmptyDoc} \cup {PutAccount(EmptyDoc, a) : a \in StoreAccounts}

\* what the backing file may hold when the first call is made
StoreFiles ==
    {NoFile,
     FileOf("garbage", FALSE, <<>>),
     FileOf("int", FALSE, 5),
     FileOf("null", FALSE, <<>>),
     FileOf("list", FALSE, <<"x">>),
     FileOf("list", FALSE, <<"accounts">>),
     FileOf("str", FALSE, <<"a", "b", "c">>),
     FileOf("str", FALSE, <<"m", "y">> \o AccountsKey),
     FileOf("dict", FALSE, <<>>),
     FileOf("dict", FALSE, [version |-> 2]),
     FileOf("dict", FALSE, [accounts |-> <<>>]),
     FileOf("dict", TRUE, EmptyDoc),
     FileOf("dict", TRUE, [accounts |-> <<>>, version |-> 2])}
        \cup {Save(PutAccount(EmptyDoc, a)) : a \in StoreAccounts}

InitStore ==
    /\ input = <<>>
    /\ pc = "start"
    /\ account = None
    /\ firstRun = FALSE
    /\ locals = NoLocals
    /\ output = <<>>
    /\ writes = 0
    /\ shown = <<>>
    /\ file \in StoreFiles
    /\ tmp = NoTmp
    /\ procs = [p \in {1} |-> Idle]
    /\ io = NoIo
    /\ ledger = NoLedger
    /\ fan = NoFan

\* the call returns v to its caller
Return(p, op, v) ==
    procs' = [procs EXCEPT ![p] = [@ EXCEPT !.pc = "returned", !.op = op,
                                              !.ret = <<v>>, !.err = ""]]

\* the call is left by an exception
Raise(p, op, err) ==
    procs' = [procs EXCEPT ![p] = [@ EXCEPT !.pc = "raised", !.op = op,
                                              !.ret = <<>>, !.err = err]]

\* load()
CallLoad(p) ==
    /\ procs[p].pc = "idle"
    /\ \E r \in {LoadOutcome(file)} :
          IF r.err # "" THEN Raise(p, "load", r.err) ELSE Return(p, "load", r.data)
    /\ UNCHANGED <<file, tmp>>

\* get_account(account_number)
CallGetAccount(p) ==
    /\ procs[p].pc = "idle"
    /\ \E number \in StoreNumbers, r \in {LoadOutcome(file)} :
          IF r.err # "" THEN Raise(p, "get_account", r.err)
          ELSE procs' = [procs EXCEPT ![p] =
                   [@ EXCEPT !.pc = "returned", !.op = "get_account",
                             !.number = number, !.ret = <<GetAccount(file, number)>>]]
    /\ UNCHANGED <<file, tmp>>

\* account_exists(account_number)
CallAccountExists(p) ==
    /\ procs[p].pc = "idle"
    /\ \E number \in StoreNumbers, r \in {LoadOutcome(file)} :
          IF r.err # "" THEN Raise(p, "account_exists", r.err)
          ELSE procs' = [procs EXCEPT ![p] =
                   [@ EXCEPT !.pc = "returned", !.op = "account_exists",
                             !.number = number, !.ret = <<AccountExists(file, number)>>]]
    /\ UNCHANGED <<file, tmp>>

\* one iteration of the loop of generate_unique_account_number(digits=10)
GenerateDraw(p) ==
    /\ procs[p].pc \in {"idle", "draw"}
    /\ \E n \in Draws, r \in {LoadOutcome(file)} :
       \E acc \in {Candidate(n, 10)} :
          IF r.err # "" THEN Raise(p, "generate", r.err)
          ELSE IF ~AccountExists(file, acc)
          THEN procs' = [procs EXCEPT ![p] =
                   [@ EXCEPT !.pc = "returned", !.op = "generate",
                             !.number = acc, !.ret = <<acc>>]]
          ELSE procs' = [procs EXCEPT ![p] =
                   [@ EXCEPT !.pc = "draw", !.op = "generate", !.number = acc]]
    /\ UNCHANGED <<file, tmp>>

\* save(data) is called
CallSave(p) ==
    /\ procs[p].pc = "idle"
    /\ \E doc \in StoreDocs :
          procs' = [procs EXCEPT ![p] =
              [@ EXCEPT !.pc = "open", !.op = "save", !.data = doc, !.before = file]]
    /\ UNCHANGED <<file, tmp>>

\* upsert_account(account) is called
CallUpsertAccount(p) ==
    /\ procs[p].pc = "idle"
    /\ \E a \in StoreAccounts :
          procs' = [procs EXCEPT ![p] =
              [@ EXCEPT !.pc = "load", !.op = "upsert_account", !.acc = Some(a),
                        !.before = file]]
    /\ UNCHANGED <<file, tmp>>

\* Mutant: upsert_account refuses a number that another holder has stored
UpsertLoad_RefuseTaken(p) ==
    /\ procs[p].pc = "load"
    /\ \E r \in {LoadOutcome(file)}, a \in {procs[p].acc[1]} :
          IF r.err # "" THEN Raise(p, "upsert_account", r.err)
          ELSE IF /\ a.account_number \in DOMAIN r.data.accounts
                  /\ r.data.accounts[a.account_number].name # a.name
          THEN Raise(p, "upsert_account", "KeyError")
          ELSE procs' = [procs EXCEPT ![p] =
                   [@ EXCEPT !.pc = "open", !.data = PutAccount(r.data, a),
                             !.before = file]]
    /\ UNCHANGED <<file, tmp>>

\* upsert_account: data = self.load(); data["accounts"][number] = asdict(account)
UpsertLoad(p) ==
    /\ procs[p].pc = "load"
    /\ \E r \in {LoadOutcome(file)} :
          IF r.err # "" THEN Raise(p, "upsert_account", r.err)
          ELSE procs' = [procs EXCEPT ![p] =
                   [@ EXCEPT !.pc = "open", !.data = PutAccount(r.data, procs[p].acc[1]),
                             !.before = file]]
    /\ UNCHANGED <<file, tmp>>

\* a file cut short: its text is not JSON
Truncated == FileOf("garbage", FALSE, <<>>)

\* Mutant: save() opens the backing file itself for writing
SaveOpen_InPlace(p) ==
    /\ procs[p].pc = "open"
    /\ file' = Truncated
    /\ procs' = [procs EXCEPT ![p].pc = "dump"]
    /\ UNCHANGED tmp

\* save: open(tmp_path, "w") creates the temporary file, or empties it
SaveOpen(p) ==
    /\ procs[p].pc = "open"
    /\ tmp' = [exists |-> TRUE, complete |-> FALSE, doc |-> EmptyDoc]
    /\ procs' = [procs EXCEPT ![p].pc = "dump"]
    /\ UNCHANGED file

\* save: json.dump writes the document and the with block closes the file
SaveDump(p) ==
    /\ procs[p].pc = "dump"
    /\ tmp' = [exists |-> TRUE, complete |-> TRUE, doc |-> procs[p].data]
    /\ procs' = [procs EXCEPT ![p].pc = "replace"]
    /\ UNCHANGED file

\* save: os.replace(tmp_path, self.path) renames the temporary file
SaveReplace(p) ==
    /\ procs[p].pc = "replace"
    /\ IF tmp.exists
       THEN /\ file' = (IF tmp.complete THEN Save(tmp.doc) ELSE Truncated)
            /\ tmp' = NoTmp
            /\ procs' = [procs EXCEPT ![p].pc = "returned"]
       ELSE /\ Raise(p, procs[p].op, "FileNotFoundError")
            /\ UNCHANGED <<file, tmp>>

\* the caller takes the result or the exception and is free for its next call
Continue(p) ==
    /\ procs[p].pc \in {"returned", "raised"}
    /\ procs' = [procs EXCEPT ![p] = Idle]
    /\ UNCHANGED <<file, tmp>>

\* the process is killed where it stands; the files stay as they are
Crash(p) ==
    /\ procs[p].pc \notin {"idle", "crashed"}
    /\ procs' = [procs EXCEPT ![p].pc = "crashed"]
    /\ UNCHANGED <<file, tmp>>

\* a new process is started on the same files
RestartProcess(p) ==
    /\ procs[p].pc = "crashed"
    /\ procs' = [procs EXCEPT ![p] = Idle]
    /\ UNCHANGED <<file, tmp>>

NextStore ==
    \/ \E p \in DOMAIN procs : CallLoad(p) /\ UNCHANGED atmVars
    \/ \E p \in DOMAIN procs : CallGetAccount(p) /\ UNCHANGED atmVars
    \/ \E p \in DOMAIN procs : CallAccountExists(p) /\ UNCHANGED atmVars
    \/ \E p \in DOMAIN procs : GenerateDraw(p) /\ UNCHANGED atmVars
    \/ \E p \in DOMAIN procs : CallSave(p) /\ UNCHANGED atmVars
    \/ \E p \in DOMAIN procs : CallUpsertAccount(p) /\ UNCHANGED atmVars
    \/ \E p \in DOMAIN procs : UpsertLoad(p) /\ UNCHANGED atmVars
    \/ \E p \in DOMAIN procs : SaveOpen(p) /\ UNCHANGED atmVars
    \/ \E p \in DOMAIN procs : SaveDump(p) /\ UNCHANGED atmVars
    \/ \E p \in DOMAIN procs : SaveReplace(p) /\ UNCHANGED atmVars
    \/ \E p \in DOMAIN procs : Continue(p) /\ UNCHANGED atmVars
    \/ \E p \in DOMAIN procs : Crash(p) /\ UNCHANGED atmVars
    \/ \E p \in DOMAIN procs : RestartProcess(p) /\ UNCHANGED atmVars

SpecStore == InitStore /\ [][NextStore]_vars

---------------------------------------------------------------------------
(* Properties of JsonStorage *)

\* the step is the call of operation op by process p, made from idle
Calls(p, op) == procs[p].pc = "idle" /\ procs'[p].pc # "idle" /\ procs'[p].op = op

\* the file holds a JSON object that lacks "accounts" or whose "accounts" is
\* not a mapping
BadShape(f) ==
    f.exists /\ f.kind = "dict" /\ ("accounts" \notin DOMAIN f.doc \/ ~f.mapping)

\* the call of p returned the empty document
ReturnedEmpty(r) == r.pc = "returned" /\ r.err = "" /\ r.ret = <<EmptyDoc>>

\* C13: generate_unique_account_number(digits=10) returns a string of exactly
\* 10 decimal digits, the random draw padded with zeros on the left, that is
\* not a key of the store when it returns; a candidate that is stored is
\* discarded and another is drawn, and no candidate that is free is discarded.
C13_GenerateUnique ==
    [][\A p \in DOMAIN procs :
          (/\ procs[p].pc \in {"idle", "draw"}
           /\ procs'[p].op = "generate"
           /\ procs'[p].pc \in {"returned", "draw"}
           /\ procs' # procs) =>
             /\ Len(procs'[p].number) = 10
             /\ IsDigit(procs'[p].number)
             /\ Int10(procs'[p].number) \in Draws
             /\ file' = file
             /\ procs'[p].pc = "returned" <=>
                    procs'[p].number \notin DOMAIN Load(file').accounts
             /\ procs'[p].pc = "returned" => procs'[p].ret = <<procs'[p].number>>]_vars

\* a stored candidate was discarded, and the next draw was returned
C13_Witness ==
    \E p \in DOMAIN procs :
        /\ procs[p].op = "generate"
        /\ procs[p].pc = "returned"
        /\ procs[p].ret = <<Candidate(1234567890, 10)>>
        /\ Candidate(7, 10) \in DOMAIN Load(file).accounts

\* C15 (as stated): load() returns exactly {"accounts": {}} and raises nothing
\* when the file is missing, when it holds an object without "accounts" and
\* when its "accounts" is not a mapping; in every other case it returns the
\* stored document unchanged.
C15_LoadEveryOtherCase ==
    [][\A p \in DOMAIN procs :
          Calls(p, "load") =>
             IF ~file.exists \/ BadShape(file)
             THEN ReturnedEmpty(procs'[p])
             ELSE /\ procs'[p].pc = "returned"
                  /\ procs'[p].err = ""
                  /\ file.kind = "dict"
                  /\ procs'[p].ret = <<file.doc>>]_vars

\* C15: load() returns exactly {"accounts": {}} and raises nothing when the
\* file is missing, when it holds an object without "accounts" and when its
\* "accounts" is not a mapping; in every other case where the file holds a
\* JSON object it returns the stored document unchanged.
C15_Load ==
    [][\A p \in DOMAIN procs :
          Calls(p, "load") =>
             IF ~file.exists \/ BadShape(file)
             THEN ReturnedEmpty(procs'[p])
             ELSE file.kind = "dict" =>
                  /\ procs'[p].pc = "returned"
                  /\ procs'[p].err = ""
                  /\ procs'[p].ret = <<file.doc>>]_vars

\* load() returned a stored document, with its account and its other field
C15_Witness ==
    \E p \in DOMAIN procs :
        /\ procs[p].op = "load"
        /\ procs[p].pc = "returned"
        /\ file.exists /\ file.kind = "dict" /\ file.mapping
        /\ "version" \in DOMAIN file.doc
        /\ "accounts" \in DOMAIN file.doc
        /\ DOMAIN file.doc.accounts # {}
        /\ procs[p].ret = <<file.doc>>

\* C16: a backing file that is not parseable JSON, or that holds a JSON value
\* other than the expected object (a number, a string, a list, null), is
\* silently treated as an empty store: load() returns {"accounts": {}} and
\* raises nothing.
C16_ForeignFileIsEmpty ==
    [][\A p \in DOMAIN procs :
          (Calls(p, "load") /\ file.exists /\ file.kind # "dict") =>
             ReturnedEmpty(procs'[p])]_vars

\* C17: when upsert_account(a) has returned, get_account(a.account_number)
\* returns a record equal to a in all eight fields and account_exists is
\* true; get_account of a number that is no key of the store (as is every
\* number never upserted) returns None.
C17_UpsertThenGet ==
    [][\A p \in DOMAIN procs :
          /\ (/\ procs[p].op = "upsert_account"
              /\ procs[p].pc = "replace"
              /\ procs'[p].pc = "returned") =>
                /\ GetAccount(file', procs[p].acc[1].account_number) = Some(procs[p].acc[1])
                /\ AccountExists(file', procs[p].acc[1].account_number)
          /\ (Calls(p, "get_account") /\ procs'[p].pc = "returned") =>
                /\ procs'[p].number \in DOMAIN Load(file).accounts =>
                       /\ procs'[p].ret[1] # None
                       /\ AsDict(procs'[p].ret[1][1]) = Stored(file, procs'[p].number)
                /\ procs'[p].number \notin DOMAIN Load(file).accounts =>
                       procs'[p].ret = <<None>>
          /\ (Calls(p, "account_exists") /\ procs'[p].pc = "returned") =>
                procs'[p].ret[1] = (procs'[p].number \in DOMAIN Load(file).accounts)]_vars

\* get_account returned the account that was upserted into a store that
\* held another one
C17_Witness ==
    \E p \in DOMAIN procs, a \in StoreAccounts :
        /\ procs[p].op = "get_account"
        /\ procs[p].pc = "returned"
        /\ procs[p].ret = <<Some(a)>>
        /\ a.account_number = Candidate(1234567890, 10)
        /\ Cardinality(DOMAIN Load(file).accounts) = 2

\* the step is the return of upsert_account in process p
UpsertReturns(p) ==
    procs[p].op = "upsert_account" /\ procs[p].pc = "replace" /\ procs'[p].pc = "returned"

\* C36: upsert_account(a) changes only the entry keyed by a.account_number:
\* every other account stored before the call is stored afterwards with all
\* its fields unchanged, no other key is added, and the entry of a is a
\* itself whether its number was stored before (overwrite) or not (insert).
C36_UpsertFrame ==
    [][\A p \in DOMAIN procs :
          UpsertReturns(p) =>
             /\ DOMAIN Load(file').accounts =
                   DOMAIN Load(procs[p].before).accounts
                      \cup {procs[p].acc[1].account_number}
             /\ \A k \in DOMAIN Load(procs[p].before).accounts :
                   k # procs[p].acc[1].account_number =>
                      Stored(file', k) = Stored(procs[p].before, k)
             /\ Stored(file', procs[p].acc[1].account_number)
                   = AsDict(procs[p].acc[1])]_vars

\* upsert_account has overwritten the account of one number in a store that
\* holds the account of another number, which is as it was
C36_Witness ==
    \E p \in DOMAIN procs :
        /\ procs[p].op = "upsert_account"
        /\ procs[p].pc = "returned"
        /\ procs[p].acc[1].account_number = Candidate(7, 10)
        /\ Candidate(7, 10) \in DOMAIN Load(procs[p].before).accounts
        /\ Stored(procs[p].before, Candidate(7, 10)) # AsDict(procs[p].acc[1])
        /\ Stored(file, Candidate(7, 10)) = AsDict(procs[p].acc[1])
        /\ Candidate(1234567890, 10) \in DOMAIN Load(procs[p].before).accounts
        /\ Stored(file, Candidate(1234567890, 10))
              = Stored(procs[p].before, Candidate(1234567890, 10))

\* the positions of a process inside save(), and after it
SavePcs == {"open", "dump", "replace", "returned", "crashed"}

\* C18: if the process is killed at any step of save(document), before,
\* while or after the temporary file is written, before or after the rename,
\* the backing file holds the complete previous document or the complete new
\* one, never a truncated or partial one; the file changes only by the rename.
C18_SaveAtomic ==
    /\ [](\A p \in DOMAIN procs :
            (procs[p].op \in {"save", "upsert_account"} /\ procs[p].pc \in SavePcs) =>
               \/ file = procs[p].before
               \/ file = Save(procs[p].data))
    /\ [][\A p \in DOMAIN procs :
            /\ (procs[p].pc \in {"open", "dump"} /\ procs'[p].pc # "returned") =>
                  file' = file
            /\ (procs[p].pc = "replace" /\ procs'[p].pc = "returned") =>
                  file' = Save(procs[p].data) /\ ~tmp'.exists]_vars

\* the process was killed while the temporary file was half written: the
\* backing file still holds the previous document, which differs from the new
C18_Witness ==
    \E p \in DOMAIN procs :
        /\ procs[p].pc = "crashed"
        /\ procs[p].op = "upsert_account"
        /\ tmp.exists /\ ~tmp.complete
        /\ file = procs[p].before
        /\ file # Save(procs[p].data)
        /\ DOMAIN Load(file).accounts # {}

---------------------------------------------------------------------------
(* Two controllers on one store file.  Each is followed through its calls  *)
(* of JsonStorage: the load and the save of an upsert_account are separate *)
(* steps, so that the other controller may act between them; save() itself *)
(* is one step here (the two temporary-file writes are not interleaved).   *)

\* who sits at controller p
HolderOf(p) ==
    [NoLocals EXCEPT !.name = IF p = 1 THEN <<"A", "l">> ELSE <<"B", "o">>,
                     !.surname = <<"M">>, !.id_number = <<"I", "D", "1">>]

InitRace ==
    /\ input = <<>>
    /\ pc = "start"
    /\ account = None
    /\ firstRun = FALSE
    /\ locals = NoLocals
    /\ output = <<>>
    /\ writes = 0
    /\ shown = <<>>
    /\ file = NoFile
    /\ tmp = NoTmp
    /\ procs = [p \in {1, 2} |-> Idle]
    /\ io = NoIo
    /\ ledger = NoLedger
    /\ fan = NoFan

\* flow_create_account after the number is generated: the PIN is asked for
\* and confirmed, the Account is built and upsert_account is called
CreateAccount(p) ==
    /\ procs[p].pc = "returned" /\ procs[p].op = "generate"
    /\ \E salt \in {[i \in 1..SaltLen |-> 0]}, created \in Timestamps :
       \E a \in {NewAccount([HolderOf(p) EXCEPT !.account_number = procs[p].number],
                            <<"1", "2", "3", "4">>, salt, created)} :
          procs' = [procs EXCEPT ![p] =
              [@ EXCEPT !.pc = "load", !.op = "upsert_account", !.account = Some(a),
                        !.acc = Some(a), !.ret = <<>>, !.before = file]]
    /\ UNCHANGED <<file, tmp>>

\* Mutant: save() writes the caller's account into the file as it is now
SaveWhole_Merged(p) ==
    /\ procs[p].pc = "open"
    /\ file' = Save(PutAccount(Load(file), procs[p].acc[1]))
    /\ procs' = [procs EXCEPT ![p].pc = "returned"]
    /\ UNCHANGED tmp

\* save(data), from the open of the temporary file to the rename
SaveWhole(p) ==
    /\ procs[p].pc = "open"
    /\ file' = Save(procs[p].data)
    /\ procs' = [procs EXCEPT ![p].pc = "returned"]
    /\ UNCHANGED tmp

\* upsert_account has returned: flow_session goes on with the Account it holds
EnterSession(p) ==
    /\ procs[p].pc = "returned" /\ procs[p].op = "upsert_account"
    /\ procs' = [procs EXCEPT ![p] =
           [Idle EXCEPT !.pc = "session", !.account = procs[p].account]]
    /\ UNCHANGED <<file, tmp>>

\* flow_login with the right PIN: get_account binds the session to what the
\* file holds now
Login(p) ==
    /\ procs[p].pc = "idle"
    /\ \E number \in DOMAIN Load(file).accounts :
          procs' = [procs EXCEPT ![p] =
              [@ EXCEPT !.pc = "session", !.account = GetAccount(file, number)]]
    /\ UNCHANGED <<file, tmp>>

\* flow_session, deposit: the balance held in memory is raised and
\* upsert_account is called
Deposit(p) ==
    /\ procs[p].pc = "session"
    /\ \E amount \in {1}, a \in {procs[p].account[1]} :
          /\ a.balance_cents + amount <= MaxDeposits
          /\ procs' = [procs EXCEPT ![p] =
                 [@ EXCEPT !.pc = "load", !.op = "upsert_account",
                           !.account = Some(Credit(a, amount)),
                           !.acc = Some(Credit(a, amount)), !.before = file]]
    /\ UNCHANGED <<file, tmp>>

\* flow_session, exit
ExitSession(p) ==
    /\ procs[p].pc = "session"
    /\ procs' = [procs EXCEPT ![p] = Idle]
    /\ UNCHANGED <<file, tmp>>

NextRace ==
    \/ \E p \in DOMAIN procs : GenerateDraw(p) /\ UNCHANGED atmVars
    \/ \E p \in DOMAIN procs : CreateAccount(p) /\ UNCHANGED atmVars
    \/ \E p \in DOMAIN procs : UpsertLoad(p) /\ UNCHANGED atmVars
    \/ \E p \in DOMAIN procs : SaveWhole(p) /\ UNCHANGED atmVars
    \/ \E p \in DOMAIN procs : EnterSession(p) /\ UNCHANGED atmVars
    \/ \E p \in DOMAIN procs : Login(p) /\ UNCHANGED atmVars
    \/ \E p \in DOMAIN procs : Deposit(p) /\ UNCHANGED atmVars
    \/ \E p \in DOMAIN procs : ExitSession(p) /\ UNCHANGED atmVars

SpecRace == InitRace /\ [][NextRace]_vars

---------------------------------------------------------------------------
(* Properties of two controllers on one store *)

\* process p has come back from an upsert_account of account number k
Upserted(p, k) ==
    /\ procs[p].pc = "returned"
    /\ procs[p].op = "upsert_account"
    /\ procs[p].acc[1].account_number = k

\* C19: two writers on one store file can lose updates (the last write
\* wins).  A save installs the document its writer built from its own
\* earlier load, whatever the file has come to hold since, and a deposit is
\* computed from the balance the session holds in memory, not from the
\* file; so there is an interleaving of two upsert_account calls after which
\* the change of one writer is absent, and two sessions bound to one account
\* overwrite each other's balance.  Nothing in the store or the controller
\* prevents it.
C19_LastWriteWins ==
    [][\A p \in DOMAIN procs :
          /\ (procs[p].pc = "open" /\ procs'[p].pc = "returned") =>
                /\ Load(file') = PutAccount(Load(procs[p].before), procs[p].acc[1])
                /\ Stored(file', procs[p].acc[1].account_number).balance_cents
                       = procs[p].account[1].balance_cents
          /\ (procs[p].pc = "session" /\ procs'[p].pc = "load") =>
                /\ procs'[p].account[1].balance_cents
                       = procs[p].account[1].balance_cents + 1
                /\ procs'[p].acc = procs'[p].account
                /\ file' = file]_vars

\* both sessions loaded the account with balance 0, both deposited 1 and
\* both saved: the file holds 1
C19_Witness ==
    \E k \in DOMAIN Load(file).accounts :
        /\ \A p \in DOMAIN procs :
              /\ Upserted(p, k)
              /\ procs[p].acc[1].balance_cents = 1
              /\ k \in DOMAIN Load(procs[p].before).accounts
              /\ Stored(procs[p].before, k).balance_cents = 0
        /\ Stored(file, k).balance_cents = 1

\* C20: two creations running together can obtain the same account number:
\* generate_unique_account_number tests only what is persisted and reserves
\* nothing, the number is persisted only by the upsert after the PIN
\* prompts, and that upsert stores the record under its number whether or
\* not another creator has stored one there meanwhile, so the second upsert
\* overwrites the account of the first creator.
C20_NumberNotReserved ==
    [][\A p \in DOMAIN procs :
          /\ (/\ procs[p].pc \in {"idle", "draw"}
              /\ procs'[p].pc = "returned" /\ procs'[p].op = "generate") =>
                /\ procs'[p].number \notin DOMAIN Load(file).accounts
                /\ file' = file /\ tmp' = tmp
          /\ (/\ procs[p].pc = "returned" /\ procs[p].op = "generate"
              /\ procs'[p] # procs[p]) =>
                /\ procs'[p].pc = "load"
                /\ procs'[p].acc[1].account_number = procs[p].number
                /\ file' = file /\ tmp' = tmp
          /\ (procs[p].pc = "load" /\ procs'[p] # procs[p]) =>
                /\ procs'[p].pc = "open"
                /\ procs'[p].data.accounts[procs[p].acc[1].account_number]
                       = AsDict(procs[p].acc[1])
          /\ (procs[p].pc = "open" /\ procs'[p].pc = "returned") =>
                Stored(file', procs[p].acc[1].account_number) = AsDict(procs[p].acc[1])]_vars

\* both creators were given the same number and both have stored their
\* account: the file holds the second one only
C20_Witness ==
    \E k \in DOMAIN Load(file).accounts :
        /\ Upserted(1, k) /\ Upserted(2, k)
        /\ procs[1].acc[1].name # procs[2].acc[1].name
        /\ Stored(file, k) = AsDict(procs[2].acc[1])
        /\ DOMAIN Load(file).accounts = {k}

---------------------------------------------------------------------------
(* Properties of the console view and of the credentials *)

\* digit strings tried against a PIN record
ProbePins ==
    {PinOutcome(l).value : l \in {x \in PinLines : PinOutcome(x).ok}}
        \cup {<<"1", "2", "3", "5">>, <<"4", "3", "2", "1">>, <<"1", "2", "3">>,
              <<"1", "2", "3", "4", "0">>, <<"0", "1", "2", "3", "4">>,
              <<"1", "2", "3", "4", "5", "6", "7", "9">>}

\* C21: the record _make_pin_record made for a PIN of 4 to 8 digits, under
\* whatever salt was drawn, verifies that PIN, and verifies no other digit
\* string (the digest being collision-free); the hash is a function of the
\* PIN and the salt alone.
C21_PinRoundTrip ==
    (pc = "ask_initial_deposit") =>
        /\ Len(locals.pin) \in 4..8 /\ IsDigit(locals.pin)
        /\ \E salt \in Salts :
              <<account[1].pin_salt_hex, account[1].pin_hash_hex>>
                  = <<Hex(salt), Hex(Sha256(salt \o EncodeUtf8(locals.pin)))>>
        /\ \A q \in ProbePins :
              VerifyPin(q, account[1].pin_salt_hex, account[1].pin_hash_hex)
                  <=> (q = locals.pin)

\* a record was made for an 8-digit PIN under a salt that is not all zeros
C21_Witness ==
    /\ pc = "ask_initial_deposit"
    /\ Len(locals.pin) = 8
    /\ account[1].pin_salt_hex # Hex([i \in 1..SaltLen |-> 0])
    /\ VerifyPin(locals.pin, account[1].pin_salt_hex, account[1].pin_hash_hex)

\* s is a PIN ask_pin_create accepts: 4 to 8 digits
ValidPin(s) == IsDigit(s) /\ Len(s) \in 4..8

\* C24: ask_pin_create returns a PIN only when two valid PINs (4 to 8
\* digits) entered one after the other are equal, and returns that value;
\* when they differ it reports an error and asks for both entries again,
\* and the first entry of the pair that differed is not used again: the
\* next comparison is against the first entry typed after it.
C24_PinCreate ==
    /\ [](pc = "ask_pin2" => ValidPin(locals.pin))
    /\ [][(pc = "ask_pin1" /\ pc' = "ask_pin2") =>
             (ValidPin(Strip(input')) /\ locals'.pin = Strip(input'))]_vars
    /\ [][(pc = "ask_pin2" /\ pc' # "eof") =>
             /\ pc' = "ask_initial_deposit" <=>
                   (ValidPin(Strip(input')) /\ Strip(input') = locals.pin)
             /\ pc' = "ask_initial_deposit" =>
                   VerifyPin(Strip(input'), account'[1].pin_salt_hex,
                             account'[1].pin_hash_hex)
             /\ (ValidPin(Strip(input')) /\ Strip(input') # locals.pin) =>
                   /\ pc' = "ask_pin1"
                   /\ Len(output') = 2
                   /\ output'[1].kind = "error_pin_mismatch"
                   /\ output'[2].kind = "prompt_pin"
                   /\ locals'.pin # locals.pin
                   /\ UNCHANGED <<file, account>>]_vars

\* two valid PINs that differ were entered: the error is reported, the
\* first entry is asked for again and nothing is kept of the old one
C24_Witness ==
    /\ pc = "ask_pin1"
    /\ ValidPin(input)
    /\ output # <<>>
    /\ output[1].kind = "error_pin_mismatch"
    /\ locals.pin = <<>>

\* the states run() is blocked in, waiting for a line
BlockingReads == StdinPrompts \cup {"pause"}

\* C25: when the input is exhausted at any blocking read of the flows,
\* EOFError is raised and propagates out of run(): the process ends there
\* and nothing else changes.
C25_EndOfInputEndsProcess ==
    [][(pc \in BlockingReads /\ input' = Eof) =>
          /\ pc' = "eof"
          /\ UNCHANGED <<file, account, firstRun, locals, shown>>]_vars

\* the step is a login that succeeds
LoggedIn == pc = "login_pin" /\ pc' = "menu_main"

\* C37: for an account used by one controller over any number of sessions,
\* the stored balance always equals the initial deposit plus the deposits
\* accepted less the withdrawals accepted, so that refused operations and
\* balance queries add nothing, and the balance shown at a login is the
\* balance the account had when its previous session ended.
C37_Sessions ==
    /\ [](\A k \in DOMAIN Load(file).accounts :
             Stored(file, k).balance_cents = ledger.net[k])
    /\ [][LoggedIn /\ ledger.atExit[account'[1].account_number] # None =>
             /\ output'[2] =
                   Msg("balance",
                       FormatMoney(ledger.atExit[account'[1].account_number][1]))
             /\ account'[1].balance_cents
                   = ledger.atExit[account'[1].account_number][1]]_vars

\* a holder whose last session ended with 0.01 has logged in again and is
\* shown 0.01, while the other account holds 0.03
C37_Witness ==
    /\ pc = "menu_main"
    /\ output[1].kind = "welcome"
    /\ output[2] = Msg("balance", <<"0", ".", "0", "1">>)
    /\ ledger.atExit[account[1].account_number] = Some(1)
    /\ ledger.net[account[1].account_number] = 1
    /\ \E k \in DOMAIN Load(file).accounts :
          k # account[1].account_number /\ Stored(file, k).balance_cents = 3

---------------------------------------------------------------------------
(* ConsoleView called directly: ask_money_amount and ask_digits, one input *)
(* line per step.  pc is the prompt the view is blocked at, locals holds   *)
(* the limits of the running ask_digits and the value the last call        *)
(* returned.                                                               *)

\* lines typed at ask_money_amount
ViewMoneyLines ==
    MoneyLines \cup
    {<<"1", "0", "0", ",", "5", "0">>, <<"1", "0", "0", ".", "5", "0">>,
     <<"1", "0", "0">>, <<"7", ",", "0", "5">>, <<" ", "1", "2", ".", "3", "4", "\t">>,
     <<"0", ".", "5">>, <<"1", ",", "2", ",", "3">>, <<"-", "0", ".", "0", "1">>,
     <<"-", "0">>, <<"i", "n", "f">>, <<"1", "e", "2">>, <<"+", "5">>, <<>>,
     <<"2", ".", "5", "0", "5">>, <<"1", "2", " ", "3">>,
     <<"0", ",", "0", "0">>, <<"-", "0", ".", "0", "0">>, <<".", "5">>,
     <<"5", ".">>, <<"9", "9", ".", "9", "9">>, <<"-", "x">>}

\* lines typed at ask_digits
ViewDigitLines ==
    PinLines \cup AccountLines \cup
    {<<" ", "4", "2", " ">>, <<"-", "1">>, <<"1", ".", "0">>, <<"0">>, <<" ">>}

\* the limits ask_digits is called with: max_len is None or <<n>>
ViewLimits ==
    {<<4, Some(8)>>, <<10, Some(10)>>, <<1, None>>, <<2, Some(3)>>, <<1, Some(1)>>}

NoViewLocals == [min_len |-> 0, max_len |-> None, ret |-> <<>>]

InitView ==
    /\ input = <<>>
    /\ pc = "view"
    /\ account = None
    /\ firstRun = FALSE
    /\ locals = NoViewLocals
    /\ output = <<>>
    /\ writes = 0
    /\ shown = <<>>
    /\ file = NoFile
    /\ tmp = NoTmp
    /\ procs = <<>>
    /\ io = NoIo
    /\ ledger = NoLedger
    /\ fan = NoFan

\* ask_money_amount(prompt) is called and blocks at its prompt
CallAskMoney ==
    /\ pc = "view"
    /\ pc' = "ask_money"
    /\ input' = <<>>
    /\ locals' = NoViewLocals
    /\ output' = Prompt("prompt_money")
    /\ UNCHANGED <<account, firstRun, writes, shown, file>>

\* ask_money_amount: one line is read
AskMoneyLine ==
    /\ pc = "ask_money"
    /\ \E line \in ViewMoneyLines :
         /\ input' = line
         /\ \E r \in {MoneyOutcome(line)} :
               CASE r.res = "retry" ->
                      /\ output' = <<Msg(r.err, <<>>)>> \o Prompt("prompt_money")
                      /\ UNCHANGED <<pc, locals>>
                 [] r.res = "raise" ->
                      /\ pc' = "crash"
                      /\ output' = <<>>
                      /\ UNCHANGED locals
                 [] r.res = "ok" ->
                      /\ pc' = "view_returned"
                      /\ output' = <<>>
                      /\ locals' = [locals EXCEPT !.ret = <<r.cents>>]
    /\ UNCHANGED <<account, firstRun, writes, shown, file>>

\* ask_digits(prompt, min_len, max_len) is called and blocks at its prompt
CallAskDigits ==
    /\ pc = "view"
    /\ \E lim \in ViewLimits :
          locals' = [NoViewLocals EXCEPT !.min_len = lim[1], !.max_len = lim[2]]
    /\ pc' = "ask_digits"
    /\ input' = <<>>
    /\ output' = Prompt("prompt_digits")
    /\ UNCHANGED <<account, firstRun, writes, shown, file>>

\* ask_digits: one line is read; without max_len no line is too long
AskDigitsLine ==
    /\ pc = "ask_digits"
    /\ \E line \in ViewDigitLines :
         /\ input' = line
         /\ \E r \in {DigitsOutcome(line, locals.min_len,
                                    IF locals.max_len = None THEN Len(line)
                                    ELSE locals.max_len[1])} :
               IF r.ok
               THEN /\ pc' = "view_returned"
                    /\ output' = <<>>
                    /\ locals' = [locals EXCEPT !.ret = <<r.value>>]
               ELSE /\ output' = <<Msg(r.err, <<>>)>> \o Prompt("prompt_digits")
                    /\ UNCHANGED <<pc, locals>>
    /\ UNCHANGED <<account, firstRun, writes, shown, file>>

\* the caller takes the value, or the process is started again
ViewContinue ==
    /\ pc \in {"view_returned", "crash"}
    /\ pc' = "view"
    /\ input' = <<>>
    /\ output' = <<>>
    /\ locals' = NoViewLocals
    /\ UNCHANGED <<account, firstRun, writes, shown, file>>

NextView ==
    \/ CallAskMoney /\ UNCHANGED storeVars
    \/ AskMoneyLine /\ UNCHANGED storeVars
    \/ CallAskDigits /\ UNCHANGED storeVars
    \/ AskDigitsLine /\ UNCHANGED storeVars
    \/ ViewContinue /\ UNCHANGED storeVars

SpecView == InitView /\ [][NextView]_vars

\* s is a run of digits, a separator, and exactly two digits
TwoDigitFraction(s) ==
    /\ Len(s) >= 4
    /\ s[Len(s) - 2] \in {",", "."}
    /\ IsDigit(SubSeq(s, 1, Len(s) - 3))
    /\ IsDigit(SubSeq(s, Len(s) - 1, Len(s)))

\* s is a minus sign before digits with at most one separator among them,
\* one of the digits not 0
NegativeAmount(s) ==
    /\ Len(s) >= 2
    /\ s[1] = "-"
    /\ \A i \in 2..Len(s) : s[i] \in Digits \cup {",", "."}
    /\ Cardinality({i \in 2..Len(s) : s[i] \in {",", "."}}) <= 1
    /\ \E i \in 2..Len(s) : s[i] \in Digits \ {"0"}

\* s cannot be a number: it is empty, or has two separators, or a character
\* no spelling of a number has
NotANumber(s) ==
    \/ s = <<>>
    \/ Cardinality({i \in 1..Len(s) : s[i] \in {",", "."}}) >= 2
    \/ \E i \in 1..Len(s) : s[i] \in {"b", "c", "x", " ", "\t"}

C23_AskDigits ==
    [][(pc = "ask_digits") =>
          /\ pc' \in {"ask_digits", "view_returned"}
          /\ pc' = "view_returned" <=>
                /\ IsDigit(Strip(input'))
                /\ Len(Strip(input')) >= locals.min_len
                /\ locals.max_len # None => Len(Strip(input')) <= locals.max_len[1]
          /\ pc' = "view_returned" => locals'.ret = <<Strip(input')>>
          /\ pc' = "ask_digits" =>
                /\ Len(output') = 2
                /\ output'[1].kind \in {"error_only_digits", "error_min_digits",
                                        "error_max_digits"}
                /\ output'[2].kind = "prompt_digits"
                /\ locals' = locals]_vars

\* the line " 42 " was typed for the limits 2..3 and "42" returned
C23_Witness ==
    /\ pc = "view_returned"
    /\ locals.min_len = 2 /\ locals.max_len = Some(3)
    /\ input = <<" ", "4", "2", " ">>
    /\ locals.ret = <<<<"4", "2">>>>

---------------------------------------------------------------------------
(* lesson1.io: stdin() and stdout() on text streams.  A call of stdin() is *)
(* two steps: the prompt is written, then the blocking readline() ends.    *)

\* str.join over the arguments, already converted with str()
RECURSIVE Join(_, _)
Join(args, sep) ==
    IF args = <<>> THEN <<>>
    ELSE IF Len(args) = 1 THEN args[1]
    ELSE args[1] \o sep \o Join(Tail(args), sep)

\* Mutant: flush() is called whatever the flag says
Stdout_AlwaysFlush(stream, args, sep, end, flush) ==
    [text |-> stream.text \o Join(args, sep) \o end,
     written |-> stream.written + 1,
     flushed |-> stream.flushed + 1]

\* stdout(*args, sep, end, file, flush): the stream after the call
Stdout(stream, args, sep, end, flush) ==
    [text |-> stream.text \o Join(args, sep) \o end,
     written |-> stream.written + 1,
     flushed |-> stream.flushed + (IF flush THEN 1 ELSE 0)]

\* prompt_text of stdin()
PromptText(prompt) ==
    IF prompt # <<>> THEN prompt \o <<"\n", ">", ">", ">">> ELSE <<">", ">", ">">>

EndsWith(s, c) == s # <<>> /\ s[Len(s)] = c

DropLast(s) == SubSeq(s, 1, Len(s) - 1)

\* Mutant: all white space at the end of the line is removed
StripNewline_RStrip(line) == RStrip(line)

\* what stdin() returns for the line readline() gave
StripNewline(line) ==
    IF EndsWith(line, "\n")
    THEN IF EndsWith(DropLast(line), "\r")
         THEN DropLast(DropLast(line))
         ELSE DropLast(line)
    ELSE line

\* prompts stdin() is called with
IoPrompts == {<<>>, <<"P">>, <<"N", "a", "m", "e", "?">>}

\* what readline() may give: a line with its line end, the last line of a
\* stream that does not end in a line end, or '' at the end of the input
ReadLines ==
    {<<>>,
     <<"h", "i", "\n">>, <<"h", "i", "\r", "\n">>, <<"h", "i", " ", " ", "\n">>,
     <<"h", "i">>, <<"h", "i", "\r">>, <<"h", "i", " ">>,
     <<"\n">>, <<"\r", "\n">>, <<"\r">>, <<" ", "\n">>, <<"\t", "\r", "\n">>,
     <<"h", "\r", "\r", "\n">>, <<"h", "\r", "i", "\n">>, <<"h", " ", "\r", "\n">>,
     <<"h", "\r", " ", "\n">>, <<"4", "2", "\n">>, <<" ", "4", "2", " ", "\r", "\n">>}

InitIo ==
    /\ input = <<>>
    /\ pc = "io"
    /\ account = None
    /\ firstRun = FALSE
    /\ locals = NoLocals
    /\ output = <<>>
    /\ writes = 0
    /\ shown = <<>>
    /\ file = NoFile
    /\ tmp = NoTmp
    /\ procs = <<>>
    /\ io = NoIo
    /\ ledger = NoLedger
    /\ fan = NoFan

\* stdin(prompt, file, out, flush) up to its readline(): the prompt is
\* written to a fresh out stream with stdout(prompt_text, end=" ")
StdinCall ==
    /\ io.pc = "idle"
    /\ \E prompt \in IoPrompts, flush \in BOOLEAN :
          io' = [NoIo EXCEPT !.pc = "readline", !.prompt = prompt, !.flush = flush,
                             !.out = Stdout(NoStream, <<PromptText(prompt)>>,
                                            <<" ">>, <<" ">>, flush)]

\* file.readline() returns: '' raises EOFError, a line is returned without
\* its line end
StdinReadline ==
    /\ io.pc = "readline"
    /\ \E line \in ReadLines :
          IF line = <<>>
          THEN io' = [io EXCEPT !.pc = "raised", !.line = line, !.exc = "EOFError"]
          ELSE io' = [io EXCEPT !.pc = "returned", !.line = line,
                                !.ret = <<StripNewline(line)>>]

\* file.readline() raises KeyboardInterrupt; stdin() has no handler
StdinInterrupt ==
    /\ io.pc = "readline"
    /\ io' = [io EXCEPT !.pc = "raised", !.exc = "KeyboardInterrupt"]

\* the caller goes on after the call
StdinDone ==
    /\ io.pc \in {"returned", "raised"}
    /\ io' = NoIo

NextIo ==
    \/ StdinCall /\ UNCHANGED <<bankVars, fan>>
    \/ StdinReadline /\ UNCHANGED <<bankVars, fan>>
    \/ StdinInterrupt /\ UNCHANGED <<bankVars, fan>>
    \/ StdinDone /\ UNCHANGED <<bankVars, fan>>

SpecIo == InitIo /\ [][NextIo]_vars

\* C26: stdin() returns the line read with exactly one "\n" removed from
\* its end and, only when that "\n" was there, one "\r" right before it
\* removed; every other character, white space at the end included, is
\* kept; a line without "\n" at its end is returned as it is, and an empty
\* read raises EOFError.
C26_StdinLine ==
    /\ (io.pc = "returned") =>
          /\ io.line # <<>>
          /\ io.exc = ""
          /\ \/ /\ EndsWith(io.line, "\n") /\ EndsWith(DropLast(io.line), "\r")
                /\ io.ret[1] \o <<"\r", "\n">> = io.line
             \/ /\ EndsWith(io.line, "\n") /\ ~EndsWith(DropLast(io.line), "\r")
                /\ io.ret[1] \o <<"\n">> = io.line
             \/ /\ ~EndsWith(io.line, "\n")
                /\ io.ret[1] = io.line
    /\ (io.pc = "raised" /\ io.exc = "EOFError") => (io.line = <<>> /\ io.ret = <<>>)
    /\ (io.pc \in {"returned", "raised"} /\ io.line = <<>>) =>
          (io.pc = "raised" /\ io.exc \in {"EOFError", "KeyboardInterrupt"})

\* the line "hi  \n" was read and "hi  " returned
C26_Witness ==
    /\ io.pc = "returned"
    /\ io.line = <<"h", "i", " ", " ", "\n">>
    /\ io.ret = <<<<"h", "i", " ", " ">>>>

\* the text stdin() writes for a prompt
ExpectedPrompt(prompt) ==
    IF prompt = <<>> THEN <<">", ">", ">", " ">>
    ELSE prompt \o <<"\n", ">", ">", ">", " ">>

\* C27: stdin() writes the prompt to out before it reads: "<prompt>\n>>> "
\* for a prompt that is not empty and ">>> " for an empty one, written
\* exactly once, also when the read ends in EOFError or KeyboardInterrupt;
\* out.flush() is called exactly once when flush is true and not at all
\* when it is false.
C27_PromptBeforeRead ==
    (io.pc \in {"readline", "returned", "raised"}) =>
        /\ io.out.text = ExpectedPrompt(io.prompt)
        /\ io.out.written = 1
        /\ io.out.flushed = (IF io.flush THEN 1 ELSE 0)

\* the read ended in KeyboardInterrupt after a prompt was written without
\* a flush
C27_Witness ==
    /\ io.pc = "raised"
    /\ io.exc = "KeyboardInterrupt"
    /\ io.prompt = <<"P">>
    /\ ~io.flush
    /\ io.out = [text |-> <<"P", "\n", ">", ">", ">", " ">>, written |-> 1, flushed |-> 0]

---------------------------------------------------------------------------
(* lesson2/hw.py: Fan, Stats and SmartFanApp.  fan.mode is Fan.mode, first *)
(* of a Fan() on its own and, once the application is constructed, of its  *)
(* fan; fan.clock is what now() gives, fan.born the time of construction;  *)
(* fan.switched the times the statistics were told of each change of the   *)
(* mode; fan.op, fan.arg, fan.ret and fan.exc describe the last call.      *)

\* MODE_LABELS and Fan.status
FanStatus(mode) ==
    CASE mode = 0 -> "switched off"
      [] mode = 1 -> "speed 1"
      [] mode = 2 -> "speed 2"
      [] mode = 3 -> "turbo mode"
      [] OTHER -> "unknown mode"

\* Mutant: only the lower limit is tested
FanSetMode_NoUpper(mode, new_mode) ==
    IF new_mode < MinMode
    THEN [mode |-> mode, exc |-> "ValueError"]
    ELSE [mode |-> new_mode, exc |-> ""]

\* Fan.set_mode: the mode afterwards and the exception raised
FanSetMode(mode, new_mode) ==
    IF new_mode < MinMode \/ new_mode > MaxMode
    THEN [mode |-> mode, exc |-> "ValueError"]
    ELSE [mode |-> new_mode, exc |-> ""]

\* Stats.start
StatsStart(st, initial_mode, ts) ==
    [st EXCEPT !.last_mode = initial_mode,
               !.last_ts = <<ts>>,
               !.mode_changes =
                   IF initial_mode \in DOMAIN st.mode_changes
                   THEN [st.mode_changes EXCEPT ![initial_mode] = @ + 1]
                   ELSE st.mode_changes]

\* Mutant: the mode that was left is counted
OnModeChange_CountsOld(st, old_mode, new_mode, ts) ==
    [st EXCEPT !.time_in_mode_s =
                   IF st.last_ts # <<>>
                   THEN [st.time_in_mode_s EXCEPT ![old_mode] = @ + (ts - st.last_ts[1])]
                   ELSE st.time_in_mode_s,
               !.last_mode = new_mode,
               !.last_ts = <<ts>>,
               !.mode_changes = [st.mode_changes EXCEPT ![old_mode] = @ + 1]]

\* Stats.on_mode_change
OnModeChange(st, old_mode, new_mode, ts) ==
    [st EXCEPT !.time_in_mode_s =
                   IF st.last_ts # <<>>
                   THEN [st.time_in_mode_s EXCEPT ![old_mode] = @ + (ts - st.last_ts[1])]
                   ELSE st.time_in_mode_s,
               !.last_mode = new_mode,
               !.last_ts = <<ts>>,
               !.mode_changes =
                   IF new_mode \in DOMAIN st.mode_changes
                   THEN [st.mode_changes EXCEPT ![new_mode] = @ + 1]
                   ELSE st.mode_changes]

\* Mutant: the time of the last call is not kept
Finalize_KeepsLastTs(st, ts) ==
    IF st.last_ts = <<>> THEN st
    ELSE [st EXCEPT !.time_in_mode_s =
                        [st.time_in_mode_s EXCEPT ![st.last_mode] = @ + (ts - st.last_ts[1])]]

\* Stats.finalize
Finalize(st, ts) ==
    IF st.last_ts = <<>> THEN st
    ELSE [st EXCEPT !.time_in_mode_s =
                        [st.time_in_mode_s EXCEPT ![st.last_mode] = @ + (ts - st.last_ts[1])],
                    !.last_ts = <<ts>>]

\* Stats.turbo_count
TurboCount(st) == IF 3 \in DOMAIN st.mode_changes THEN st.mode_changes[3] ELSE 0

\* the two messages of _change_mode and status
ModeMessage(kind, mode) == [kind |-> kind, mode |-> mode, label |-> FanStatus(mode)]

\* Mutant: a request for the current mode is logged as an event
ChangeMode_LogsNoChange(f, new_mode, action, d) ==
    IF FanSetMode(f.mode, new_mode).exc # ""
    THEN [f EXCEPT !.ret = NoRet, !.exc = FanSetMode(f.mode, new_mode).exc]
    ELSE [f EXCEPT !.mode = new_mode,
                   !.stats = IF new_mode = f.mode THEN f.stats
                             ELSE OnModeChange(f.stats, f.mode, new_mode, f.clock),
                   !.history = Append(f.history,
                                      [timestamp |-> f.clock + d, action |-> action,
                                       old_mode |-> f.mode, new_mode |-> new_mode]),
                   !.clock = f.clock + d,
                   !.switched = IF new_mode = f.mode THEN f.switched
                                ELSE Append(f.switched, f.clock),
                   !.ret = ModeMessage(IF new_mode = f.mode THEN "No change" ELSE "Mode",
                                       new_mode),
                   !.exc = ""]

\* Mutant: the event is logged and the fan stays in its mode
ChangeMode_KeepsMode(f, new_mode, action, d) ==
    IF new_mode = f.mode
    THEN [f EXCEPT !.ret = ModeMessage("No change", f.mode), !.exc = ""]
    ELSE IF FanSetMode(f.mode, new_mode).exc # ""
    THEN [f EXCEPT !.ret = NoRet, !.exc = FanSetMode(f.mode, new_mode).exc]
    ELSE [f EXCEPT !.stats = OnModeChange(f.stats, f.mode, new_mode, f.clock),
                   !.history = Append(f.history,
                                      [timestamp |-> f.clock + d, action |-> action,
                                       old_mode |-> f.mode, new_mode |-> new_mode]),
                   !.clock = f.clock + d,
                   !.switched = Append(f.switched, f.clock),
                   !.ret = ModeMessage("Mode", f.mode),
                   !.exc = ""]

\* SmartFanApp._change_mode; now() is read twice, for the statistics and
\* for the event, and has advanced by d in between
ChangeMode(f, new_mode, action, d) ==
    IF new_mode = f.mode
    THEN [f EXCEPT !.ret = ModeMessage("No change", f.mode), !.exc = ""]
    ELSE IF FanSetMode(f.mode, new_mode).exc # ""
    THEN [f EXCEPT !.ret = NoRet, !.exc = FanSetMode(f.mode, new_mode).exc]
    ELSE [f EXCEPT !.mode = FanSetMode(f.mode, new_mode).mode,
                   !.stats = OnModeChange(f.stats, f.mode, new_mode, f.clock),
                   !.history = Append(f.history,
                                      [timestamp |-> f.clock + d, action |-> action,
                                       old_mode |-> f.mode, new_mode |-> new_mode]),
                   !.clock = f.clock + d,
                   !.switched = Append(f.switched, f.clock),
                   !.ret = ModeMessage("Mode", FanSetMode(f.mode, new_mode).mode),
                   !.exc = ""]

\* Mutant: the mode is raised without a limit
UpTarget_NoClamp(mode) == mode + 1

\* new_mode of up()
UpTarget(mode) == IF mode + 1 > MaxMode THEN MaxMode ELSE mode + 1

\* new_mode of down()
DownTarget(mode) == IF mode - 1 < MinMode THEN MinMode ELSE mode - 1

\* the modes asked for: every mode, and the numbers next to the range
ModeArgs == (MinMode - 1)..(MaxMode + 1)

\* by how much now() may advance between two reads inside one call
ClockSteps == {d \in 0..1 : fan.clock + d <= MaxClock}

InitFan ==
    /\ input = <<>>
    /\ pc = "fan"
    /\ account = None
    /\ firstRun = FALSE
    /\ locals = NoLocals
    /\ output = <<>>
    /\ writes = 0
    /\ shown = <<>>
    /\ file = NoFile
    /\ tmp = NoTmp
    /\ procs = <<>>
    /\ io = NoIo
    /\ ledger = NoLedger
    /\ fan = NoFan

\* Fan.set_mode called on a Fan that belongs to no application
FanSetModeCall ==
    /\ ~fan.built
    /\ \E new_mode \in ModeArgs :
          fan' = [fan EXCEPT !.mode = FanSetMode(fan.mode, new_mode).mode,
                             !.exc = FanSetMode(fan.mode, new_mode).exc,
                             !.op = "Fan.set_mode", !.arg = new_mode]

\* main: SmartFanApp() with a new Fan and new Stats, and __post_init__
Construct ==
    /\ ~fan.built
    /\ fan' = [NoFan EXCEPT !.built = TRUE,
                            !.stats = StatsStart(NewStats, NoFan.mode, fan.clock),
                            !.clock = fan.clock, !.born = fan.clock,
                            !.op = "init"]

\* SmartFanApp.set_mode
SetMode ==
    /\ fan.built
    /\ \E new_mode \in ModeArgs, d \in ClockSteps :
          /\ (new_mode \in Modes \ {fan.mode}) => Len(fan.history) < MaxHistory
          /\ fan' = [ChangeMode(fan, new_mode, "SET", d) EXCEPT
                         !.op = "set_mode", !.arg = new_mode]

\* SmartFanApp.up
Up ==
    /\ fan.built
    /\ \E d \in ClockSteps :
          /\ (UpTarget(fan.mode) # fan.mode) => Len(fan.history) < MaxHistory
          /\ fan' = [ChangeMode(fan, UpTarget(fan.mode), "UP", d) EXCEPT
                         !.op = "up", !.arg = 0]

\* SmartFanApp.down
Down ==
    /\ fan.built
    /\ \E d \in ClockSteps :
          /\ (DownTarget(fan.mode) # fan.mode) => Len(fan.history) < MaxHistory
          /\ fan' = [ChangeMode(fan, DownTarget(fan.mode), "DOWN", d) EXCEPT
                         !.op = "down", !.arg = 0]

\* MODE_WATTS and Stats.energy_wh, in watt seconds (3600 to the Wh)
EnergyWs(st) ==
    0 * st.time_in_mode_s[0] + 20 * st.time_in_mode_s[1]
      + 35 * st.time_in_mode_s[2] + 60 * st.time_in_mode_s[3]

\* what stats_lines() reports of the statistics st
StatsReport(kind, st) ==
    [kind |-> kind, mode_changes |-> st.mode_changes,
     time_in_mode_s |-> st.time_in_mode_s, turbo |-> TurboCount(st),
     energy_ws |-> EnergyWs(st)]

\* SmartFanApp.stats_lines: the statistics are brought up to now()
StatsLines ==
    /\ fan.built
    /\ fan' = [fan EXCEPT !.stats = Finalize(fan.stats, fan.clock),
                          !.ret = StatsReport("Stats", Finalize(fan.stats, fan.clock)),
                          !.op = "stats_lines", !.arg = 0, !.exc = ""]

\* SmartFanApp.power_lines
PowerLines ==
    /\ fan.built
    /\ fan' = [fan EXCEPT !.stats = Finalize(fan.stats, fan.clock),
                          !.ret = [kind |-> "Power", mode |-> fan.mode,
                                   label |-> FanStatus(fan.mode),
                                   energy_ws |-> EnergyWs(Finalize(fan.stats, fan.clock))],
                          !.op = "power_lines", !.arg = 0, !.exc = ""]

\* SmartFanApp.export_stats: stats_lines() and the history go to the file
\* next to the log; fan.ret is what the call wrote
ExportStats ==
    /\ fan.built
    /\ fan' = [fan EXCEPT !.stats = Finalize(fan.stats, fan.clock),
                          !.ret = StatsReport("Exported", Finalize(fan.stats, fan.clock)),
                          !.op = "export_stats", !.arg = 0, !.exc = ""]

\* time passes between two calls
Tick ==
    /\ fan.clock < MaxClock
    /\ fan' = [fan EXCEPT !.clock = @ + 1, !.op = "tick", !.arg = 0,
                          !.ret = NoRet, !.exc = ""]

NextFan ==
    \/ FanSetModeCall /\ UNCHANGED <<bankVars, io>>
    \/ Construct /\ UNCHANGED <<bankVars, io>>
    \/ SetMode /\ UNCHANGED <<bankVars, io>>
    \/ Up /\ UNCHANGED <<bankVars, io>>
    \/ Down /\ UNCHANGED <<bankVars, io>>
    \/ StatsLines /\ UNCHANGED <<bankVars, io>>
    \/ PowerLines /\ UNCHANGED <<bankVars, io>>
    \/ ExportStats /\ UNCHANGED <<bankVars, io>>
    \/ Tick /\ UNCHANGED <<bankVars, io>>

SpecFan == InitFan /\ [][NextFan]_vars

\* C28: a mode outside 0..3 is refused with ValueError and changes
\* nothing: Fan.set_mode leaves Fan.mode as it was, and SmartFanApp.set_mode
\* leaves the mode, the history and the statistics (mode_changes,
\* time_in_mode_s) as they were; a mode inside 0..3 becomes the mode.
C28_ModeOutOfRange ==
    /\ [][(fan'.op = "Fan.set_mode" /\ fan'.arg \notin 0..3) =>
             (fan'.exc = "ValueError" /\ fan'.mode = fan.mode)]_vars
    /\ [][(fan'.op = "set_mode" /\ fan'.arg \notin 0..3) =>
             /\ fan'.exc = "ValueError"
             /\ fan'.mode = fan.mode
             /\ fan'.history = fan.history
             /\ fan'.stats.mode_changes = fan.stats.mode_changes
             /\ fan'.stats.time_in_mode_s = fan.stats.time_in_mode_s]_vars
    /\ [][(fan'.op \in {"Fan.set_mode", "set_mode"} /\ fan'.arg \in 0..3) =>
             (fan'.exc = "" /\ fan'.mode = fan'.arg)]_vars

\* set_mode(4) was refused at mode 2, after one change of the mode
C28_Witness ==
    /\ fan.built
    /\ fan.op = "set_mode" /\ fan.arg = 4
    /\ fan.exc = "ValueError"
    /\ fan.mode = 2
    /\ Len(fan.history) = 1

\* C29: after any sequence of set_mode, up and down calls (refused
\* set_mode calls among them) on an application that started at mode 0, the
\* mode is in 0..3; up() raises the mode by exactly 1 below 3 and leaves it
\* at 3, down() lowers it by exactly 1 above 0 and leaves it at 0, and
\* neither of the two raises an error.
C29_ModeInRange ==
    /\ [](fan.built => fan.mode \in 0..3)
    /\ [][(fan'.op = "up") =>
             /\ fan'.exc = ""
             /\ fan'.mode = (IF fan.mode < 3 THEN fan.mode + 1 ELSE 3)]_vars
    /\ [][(fan'.op = "down") =>
             /\ fan'.exc = ""
             /\ fan'.mode = (IF fan.mode > 0 THEN fan.mode - 1 ELSE 0)]_vars

\* up() was called at mode 3, reached with three calls of up(), and left
\* the mode at 3
C29_Witness ==
    /\ fan.built
    /\ fan.op = "up"
    /\ fan.mode = 3
    /\ fan.ret.kind = "No change"
    /\ Len(fan.history) = 3
    /\ \A i \in 1..3 : fan.history[i].action = "UP"

\* the action name _change_mode is given by each of the three calls
ActionName(op) ==
    CASE op = "set_mode" -> "SET" [] op = "up" -> "UP" [] op = "down" -> "DOWN"
      [] OTHER -> ""

\* C30: the construction counts the initial mode once in mode_changes;
\* every later set_mode, up or down call that changes the mode from old to
\* new appends exactly one Event with the name of the call, old and new to
\* the history and adds exactly 1 to mode_changes[new] and to no other
\* counter; so the counters of mode_changes add up to 1 + len(history), and
\* turbo_count() is the number of times mode 3 was entered.
C30_HistoryAndCounters ==
    /\ [][(fan'.op = "init") =>
             /\ fan'.history = <<>>
             /\ \A m \in 0..3 :
                   fan'.stats.mode_changes[m] = (IF m = fan'.mode THEN 1 ELSE 0)]_vars
    /\ [][(fan.built /\ fan'.mode # fan.mode) =>
             /\ fan'.op \in {"set_mode", "up", "down"}
             /\ Len(fan'.history) = Len(fan.history) + 1
             /\ SubSeq(fan'.history, 1, Len(fan.history)) = fan.history
             /\ fan'.history[Len(fan'.history)].action = ActionName(fan'.op)
             /\ fan'.history[Len(fan'.history)].old_mode = fan.mode
             /\ fan'.history[Len(fan'.history)].new_mode = fan'.mode
             /\ \A m \in 0..3 :
                   fan'.stats.mode_changes[m] =
                       fan.stats.mode_changes[m] + (IF m = fan'.mode THEN 1 ELSE 0)]_vars
    /\ [](fan.built =>
             /\ fan.stats.mode_changes[0] + fan.stats.mode_changes[1]
                  + fan.stats.mode_changes[2] + fan.stats.mode_changes[3]
                  = 1 + Len(fan.history)
             /\ TurboCount(fan.stats)
                  = Cardinality({i \in 1..Len(fan.history) : fan.history[i].new_mode = 3}))

\* mode 3 was entered twice, by set_mode and by up(), in three changes
C30_Witness ==
    /\ fan.built
    /\ Len(fan.history) = 3
    /\ fan.history[1].action = "SET" /\ fan.history[1].new_mode = 3
    /\ fan.history[2].action = "DOWN"
    /\ fan.history[3].action = "UP" /\ fan.history[3].new_mode = 3
    /\ TurboCount(fan.stats) = 2

\* the calls that bring the statistics up to now()
Finalizers == {"stats_lines", "power_lines", "export_stats"}

\* the mode the fan was in during its i-th stay, the first being stay 0
StayMode(i) == IF i = 0 THEN 0 ELSE fan.history[i].new_mode

\* when the i-th stay began, and when it ended if now is T
StayBegin(i) == IF i = 0 THEN fan.born ELSE fan.switched[i]
StayEnd(i, T) == IF i = Len(fan.switched) THEN T ELSE fan.switched[i + 1]

\* the total length, up to T, of the stays in mode m among stays i and later
RECURSIVE TimeInMode(_, _, _)
TimeInMode(m, T, i) ==
    IF i > Len(fan.switched) THEN 0
    ELSE (IF StayMode(i) = m THEN StayEnd(i, T) - StayBegin(i) ELSE 0)
           + TimeInMode(m, T, i + 1)

\* C31: with a clock that never goes back, after any sequence of changes of
\* the mode and of stats_lines, power_lines and export_stats calls, right
\* after a call that finalizes at time T the time_in_mode_s of each mode is
\* the total length of the intervals the fan was in that mode, and the four
\* add up to T minus the time of construction; finalizing again at the same
\* time changes nothing.
C31_TimeInMode ==
    /\ [](fan.op \in Finalizers =>
             /\ \A m \in 0..3 : fan.stats.time_in_mode_s[m] = TimeInMode(m, fan.clock, 0)
             /\ fan.stats.time_in_mode_s[0] + fan.stats.time_in_mode_s[1]
                  + fan.stats.time_in_mode_s[2] + fan.stats.time_in_mode_s[3]
                  = fan.clock - fan.born)
    /\ [][(fan.op \in Finalizers /\ fan'.op \in Finalizers) =>
             fan'.stats = fan.stats]_vars

\* the fan was off for one unit of time and in turbo mode for one, and the
\* statistics were brought up to date a second time
C31_Witness ==
    /\ fan.op = "power_lines"
    /\ fan.ret.kind = "Power"
    /\ fan.born = 0 /\ fan.clock = 2
    /\ fan.mode = 3
    /\ fan.stats.time_in_mode_s[0] = 1
    /\ fan.stats.time_in_mode_s[3] = 1
    /\ fan.stats.last_ts = <<2>>

---------------------------------------------------------------------------
(* SmartFanApp.history_lines on long histories: the fan is swept up and    *)
(* down, one change of the mode per second, and history_lines is called    *)
(* with and without its argument.                                          *)

Min(a, b) == IF a <= b THEN a ELSE b
Max(a, b) == IF a >= b THEN a ELSE b

\* Mutant: the first events are taken
HistorySlice_First(history, last) == SubSeq(history, 1, Min(Max(last, 0), Len(history)))

\* history[-last:]
HistorySlice(history, last) ==
    IF last > 0 THEN SubSeq(history, Max(Len(history) - last, 0) + 1, Len(history))
    ELSE SubSeq(history, Min(0 - last, Len(history)) + 1, Len(history))

\* strftime("%H:%M:%S") of a time stamp, in a time zone without offset
Stamp(ts) ==
    ZFill(Str((ts \div 3600) % 24), 2) \o <<":">> \o ZFill(Str((ts \div 60) % 60), 2)
      \o <<":">> \o ZFill(Str(ts % 60), 2)

ActionText(action) ==
    CASE action = "SET" -> <<"S", "E", "T">>
      [] action = "UP" -> <<"U", "P">>
      [] action = "DOWN" -> <<"D", "O", "W", "N">>

\* one line of history_lines
HistoryLine(e) ==
    Stamp(e.timestamp) \o <<" ", "|", " ">> \o ActionText(e.action) \o <<":", " ">>
      \o Str(e.old_mode) \o <<" ", "-", ">", " ">> \o Str(e.new_mode)

HistoryLines(history, last) ==
    [i \in 1..Len(HistorySlice(history, last)) |-> HistoryLine(HistorySlice(history, last)[i])]

\* the values history_lines is called with
HistoryArgs == (0 - 1)..(MaxEvents + 1)

InitLines ==
    /\ input = <<>>
    /\ pc = "fan"
    /\ account = None
    /\ firstRun = FALSE
    /\ locals = NoLocals
    /\ output = <<>>
    /\ writes = 0
    /\ shown = <<>>
    /\ file = NoFile
    /\ tmp = NoTmp
    /\ procs = <<>>
    /\ io = NoIo
    /\ ledger = NoLedger
    /\ fan = [NoFan EXCEPT !.built = TRUE, !.stats = StatsStart(NewStats, NoFan.mode, 0),
                           !.op = "init"]

\* up() until turbo mode is reached, then down() until the fan is off, and
\* so on; a second passes before each call
Sweep ==
    /\ Len(fan.history) < MaxEvents
    /\ LET rising == \/ fan.mode = MinMode
                     \/ /\ fan.mode < MaxMode
                        /\ fan.history # <<>>
                        /\ fan.history[Len(fan.history)].action = "UP"
           later == [fan EXCEPT !.clock = @ + 1]
       IN  fan' = IF rising
                  THEN [ChangeMode(later, UpTarget(fan.mode), "UP", 0)
                           EXCEPT !.op = "up", !.arg = 0]
                  ELSE [ChangeMode(later, DownTarget(fan.mode), "DOWN", 0)
                           EXCEPT !.op = "down", !.arg = 0]

\* history_lines(last)
HistoryLinesCall ==
    /\ fan.built
    /\ \E last \in HistoryArgs :
          fan' = [fan EXCEPT !.ret = [kind |-> "History",
                                      lines |-> HistoryLines(fan.history, last)],
                             !.op = "history_lines", !.arg = last, !.exc = ""]

\* the command history of run_cli: history_lines() with its default
HistoryCommand ==
    /\ fan.built
    /\ fan' = [fan EXCEPT !.ret = [kind |-> "History",
                                   lines |-> HistoryLines(fan.history, 10)],
                          !.op = "history", !.arg = 0, !.exc = ""]

NextLines ==
    \/ Sweep /\ UNCHANGED <<bankVars, io>>
    \/ HistoryLinesCall /\ UNCHANGED <<bankVars, io>>
    \/ HistoryCommand /\ UNCHANGED <<bankVars, io>>

SpecLines == InitLines /\ [][NextLines]_vars

\* line has the form "<time> | <ACTION>: <old> -> <new>" for the event e
DescribesEvent(line, e) ==
    /\ Len(line) = 8 + 3 + Len(ActionText(e.action)) + 2 + 1 + 4 + 1
    /\ \A i \in {1, 2, 4, 5, 7, 8} : line[i] \in Digits
    /\ line[3] = ":" /\ line[6] = ":"
    /\ Int10(SubSeq(line, 1, 2)) * 3600 + Int10(SubSeq(line, 4, 5)) * 60
         + Int10(SubSeq(line, 7, 8)) = e.timestamp % 86400
    /\ SubSeq(line, 9, 11) = <<" ", "|", " ">>
    /\ SubSeq(line, 12, Len(line) - 8) = ActionText(e.action)
    /\ SubSeq(line, Len(line) - 7, Len(line))
         = <<":", " ", DigitChar(e.old_mode), " ", "-", ">", " ", DigitChar(e.new_mode)>>

\* the lines are the k latest events of the history, the oldest first
LatestEvents(lines, history, k) ==
    /\ Len(lines) = k
    /\ \A j \in 1..k : DescribesEvent(lines[j], history[Len(history) - k + j])

\* C32: history_lines(last=n) for n >= 1 returns exactly
\* min(n, len(history)) lines that describe the latest events in the order
\* they happened, each of the form "<time> | <ACTION>: <old> -> <new>"; it
\* does not change the history, and the default shows the last 10 changes.
C32_HistoryLines ==
    /\ []((fan.op = "history_lines" /\ fan.arg >= 1) =>
             LatestEvents(fan.ret.lines, fan.history,
                          IF fan.arg <= Len(fan.history) THEN fan.arg
                          ELSE Len(fan.history)))
    /\ [](fan.op = "history" =>
             LatestEvents(fan.ret.lines, fan.history,
                          IF Len(fan.history) >= 10 THEN 10 ELSE Len(fan.history)))
    /\ [][(fan'.op \in {"history_lines", "history"}) =>
             /\ fan'.history = fan.history
             /\ fan'.stats = fan.stats
             /\ fan'.mode = fan.mode]_vars

\* history_lines(last=2) on a history of twelve events returned the
\* eleventh and the twelfth, in this order
C32_Witness ==
    /\ fan.op = "history_lines" /\ fan.arg = 2
    /\ Len(fan.history) = 12
    /\ fan.ret.lines
         = << <<"0", "0", ":", "0", "0", ":", "1", "1", " ", "|", " ",
                "D", "O", "W", "N", ":", " ", "2", " ", "-", ">", " ", "1">>,
              <<"0", "0", ":", "0", "0", ":", "1", "2", " ", "|", " ",
                "D", "O", "W", "N", ":", " ", "1", " ", "-", ">", " ", "0">> >>

---------------------------------------------------------------------------
(* lesson2/operators.py: Arithmetic, Comparison and Bitwise with the       *)
(* show_all() of ShowAllMixin.  A number is its type with real and         *)
(* imaginary part; the floats of the model have whole values.  locals is   *)
(* the object made last with the method called last and its outcome,       *)
(* output the lines the last call printed.                                 *)

Number(type, re, im) == [type |-> type, form |-> "", re |-> re, im |-> im]

\* the value of an expression over the operands that is not worked out
Unevaluated(type, form) == [type |-> type, form |-> form, re |-> 0, im |-> 0]

Bool(b) == Number("bool", IF b THEN 1 ELSE 0, 0)

IsComplex(v) == v.type = "complex"

\* v == 0
IsZero(v) == v.re = 0 /\ v.im = 0

\* the type of the result of +, - and * on two numbers
WiderType(a, b) ==
    IF IsComplex(a) \/ IsComplex(b) THEN "complex"
    ELSE IF a.type = "float" \/ b.type = "float" THEN "float"
    ELSE "int"

Returns(value) == [exc |-> "", msg |-> "", value |-> value]
Raises(exc, msg) == [exc |-> exc, msg |-> msg, value |-> Number("", 0, 0)]

\* Mutant: the quotient is rounded towards zero
PyFloorDiv_Truncates(a, b) ==
    IF (a >= 0) = (b > 0)
    THEN (IF a >= 0 THEN a ELSE 0 - a) \div (IF b > 0 THEN b ELSE 0 - b)
    ELSE 0 - ((IF a >= 0 THEN a ELSE 0 - a) \div (IF b > 0 THEN b ELSE 0 - b))

\* a // b of Python for b # 0
PyFloorDiv(a, b) == IF b > 0 THEN a \div b ELSE (0 - a) \div (0 - b)

\* a % b of Python for b # 0: the remainder has the sign of b
PyMod(a, b) == IF b > 0 THEN a % b ELSE 0 - ((0 - a) % (0 - b))

RECURSIVE IntPow(_, _)
IntPow(a, n) == IF n = 0 THEN 1 ELSE a * IntPow(a, n - 1)

\* the methods of Arithmetic
Arith(method, a, b) ==
    CASE method = "addition" ->
           Returns(Number(WiderType(a, b), a.re + b.re, a.im + b.im))
      [] method = "subtraction" ->
           Returns(Number(WiderType(a, b), a.re - b.re, a.im - b.im))
      [] method = "multiplication" ->
           Returns(Number(WiderType(a, b), a.re * b.re - a.im * b.im,
                          a.re * b.im + a.im * b.re))
      [] method = "division" ->
           IF IsZero(b) THEN Raises("ZeroDivisionError", "/")
           ELSE Returns(Unevaluated(IF WiderType(a, b) = "complex" THEN "complex"
                                    ELSE "float", "a / b"))
      [] method = "power" ->
           IF IsZero(a) /\ (b.re < 0 \/ b.im # 0)
           THEN Raises("ZeroDivisionError", "**")
           ELSE IF WiderType(a, b) = "int" /\ b.re >= 0
           THEN Returns(Number("int", IntPow(a.re, b.re), 0))
           ELSE Returns(Unevaluated(IF WiderType(a, b) = "int" THEN "float"
                                    ELSE WiderType(a, b), "a ** b"))
      [] method = "integer_division" ->
           IF IsComplex(a) \/ IsComplex(b) THEN Raises("TypeError", "//")
           ELSE IF IsZero(b) THEN Raises("ZeroDivisionError", "//")
           ELSE Returns(Number(WiderType(a, b), PyFloorDiv(a.re, b.re), 0))
      [] method = "modulo" ->
           IF IsComplex(a) \/ IsComplex(b) THEN Raises("TypeError", "%")
           ELSE IF IsZero(b) THEN Raises("ZeroDivisionError", "%")
           ELSE Returns(Number(WiderType(a, b), PyMod(a.re, b.re), 0))

\* the methods of Comparison; complex numbers have no order
Compare(method, a, b) ==
    IF method \in {"lt", "gt", "le", "ge"} /\ (IsComplex(a) \/ IsComplex(b))
    THEN Raises("TypeError", method)
    ELSE CASE method = "lt" -> Returns(Bool(a.re < b.re))
           [] method = "gt" -> Returns(Bool(a.re > b.re))
           [] method = "le" -> Returns(Bool(a.re <= b.re))
           [] method = "ge" -> Returns(Bool(a.re >= b.re))
           [] method = "eq" -> Returns(Bool(a.re = b.re /\ a.im = b.im))
           [] method = "ne" -> Returns(Bool(~(a.re = b.re /\ a.im = b.im)))

\* x & y, x | y and x ^ y on integers of any sign, bit by bit
RECURSIVE BitOp(_, _, _)
BitOp(op, x, y) ==
    IF x \in {0, 0 - 1} /\ y \in {0, 0 - 1}
    THEN LET bx == x # 0
             by == y # 0
             bit == CASE op = "and" -> bx /\ by
                      [] op = "or" -> bx \/ by
                      [] op = "xor" -> bx # by
         IN  IF bit THEN 0 - 1 ELSE 0
    ELSE LET bx == x % 2 = 1
             by == y % 2 = 1
             bit == CASE op = "and" -> bx /\ by
                      [] op = "or" -> bx \/ by
                      [] op = "xor" -> bx # by
         IN  2 * BitOp(op, x \div 2, y \div 2) + (IF bit THEN 1 ELSE 0)

RECURSIVE Pow2(_)
Pow2(n) == IF n = 0 THEN 1 ELSE 2 * Pow2(n - 1)

\* the methods of Bitwise
Bits(method, x, y) ==
    CASE method = "and_" -> Returns(Number("int", BitOp("and", x.re, y.re), 0))
      [] method = "or_" -> Returns(Number("int", BitOp("or", x.re, y.re), 0))
      [] method = "xor" -> Returns(Number("int", BitOp("xor", x.re, y.re), 0))
      [] method = "invert_x" -> Returns(Number("int", 0 - x.re - 1, 0))
      [] method = "lshift" ->
           IF y.re < 0 THEN Raises("ValueError", "negative shift count")
           ELSE Returns(Number("int", x.re * Pow2(y.re), 0))
      [] method = "rshift" ->
           IF y.re < 0 THEN Raises("ValueError", "negative shift count")
           ELSE Returns(Number("int", x.re \div Pow2(y.re), 0))

\* _operations(): the template and the method of each operation, in the
\* order they are declared
Operations(cls) ==
    CASE cls = "Arithmetic" ->
           << <<"{a} + {b}", "addition">>, <<"{a} - {b}", "subtraction">>,
              <<"{a} * {b}", "multiplication">>, <<"{a} / {b}", "division">>,
              <<"{a} ** {b}", "power">>, <<"{a} // {b}", "integer_division">>,
              <<"{a} % {b}", "modulo">> >>
      [] cls = "Comparison" ->
           << <<"{a} < {b}", "lt">>, <<"{a} > {b}", "gt">>, <<"{a} <= {b}", "le">>,
              <<"{a} >= {b}", "ge">>, <<"{a} == {b}", "eq">>, <<"{a} != {b}", "ne">> >>
      [] cls = "Bitwise" ->
           << <<"{x} & {y}", "and_">>, <<"{x} | {y}", "or_">>, <<"{x} ^ {y}", "xor">>,
              <<"~{x}", "invert_x">>, <<"{x} << {y}", "lshift">>,
              <<"{x} >> {y}", "rshift">> >>

\* op.func() for a method of the object obj
Evaluate(obj, method) ==
    CASE obj.cls = "Arithmetic" -> Arith(method, obj.a, obj.b)
      [] obj.cls = "Comparison" -> Compare(method, obj.a, obj.b)
      [] obj.cls = "Bitwise" -> Bits(method, obj.a, obj.b)

\* one line of show_all: the expression, then the result with its type or
\* the name of the error with its message
OperationLine(obj, op) ==
    [expr |-> [template |-> op[1], a |-> obj.a, b |-> obj.b],
     outcome |-> Evaluate(obj, op[2])]

\* Mutant: the first error ends the loop
ShowAll_StopsAtError(obj) ==
    LET ops == Operations(obj.cls)
        ok(i) == \A j \in 1..i : Evaluate(obj, ops[j][2]).exc = ""
        n == Cardinality({i \in 1..Len(ops) : ok(i)})
    IN  [i \in 1..n |-> OperationLine(obj, ops[i])]

\* ShowAllMixin.show_all: the lines it prints
ShowAll(obj) ==
    [i \in 1..Len(Operations(obj.cls)) |-> OperationLine(obj, Operations(obj.cls)[i])]

\* the two lines Bitwise.show_all prints before the lines of the operations
BitwiseHeader(obj) ==
    << [expr |-> [template |-> "x = {x} ({bin})", a |-> obj.a, b |-> obj.a],
        outcome |-> Returns(obj.a)],
       [expr |-> [template |-> "y = {y} ({bin})", a |-> obj.b, b |-> obj.b],
        outcome |-> Returns(obj.b)] >>

\* the operands of the model
OpInts == {Number("int", n, 0) : n \in (0 - 3)..3}
OpFloats == {Number("float", n, 0) : n \in {0 - 2, 0, 2}}
OpComplex == {Number("complex", 0, 0), Number("complex", 1, 1), Number("complex", 2, 3)}
OpNumbers == OpInts \cup OpFloats \cup OpComplex

NoObject == [cls |-> "", a |-> Number("", 0, 0), b |-> Number("", 0, 0),
             method |-> "", ret |-> Returns(Number("", 0, 0))]

InitOps ==
    /\ input = <<>>
    /\ pc = "ops"
    /\ account = None
    /\ firstRun = FALSE
    /\ locals = NoObject
    /\ output = <<>>
    /\ writes = 0
    /\ shown = <<>>
    /\ file = NoFile
    /\ tmp = NoTmp
    /\ procs = <<>>
    /\ io = NoIo
    /\ ledger = NoLedger
    /\ fan = NoFan

\* Arithmetic(a, b), Comparison(left, right) or Bitwise(x, y) is made
NewObject ==
    /\ \/ \E cls \in {"Arithmetic", "Comparison"}, a \in OpNumbers, b \in OpNumbers :
             locals' = [NoObject EXCEPT !.cls = cls, !.a = a, !.b = b]
       \/ \E x \in OpInts, y \in OpInts :
             locals' = [NoObject EXCEPT !.cls = "Bitwise", !.a = x, !.b = y]
    /\ output' = <<>>
    /\ UNCHANGED <<input, pc, account, firstRun, writes, shown, file>>

\* one of the methods of the object is called
CallMethod ==
    /\ locals.cls # ""
    /\ \E i \in 1..Len(Operations(locals.cls)) :
          locals' = [locals EXCEPT !.method = Operations(locals.cls)[i][2],
                                   !.ret = Evaluate(locals, Operations(locals.cls)[i][2])]
    /\ output' = <<>>
    /\ UNCHANGED <<input, pc, account, firstRun, writes, shown, file>>

\* show_all() is called
ShowAllCall ==
    /\ locals.cls # ""
    /\ locals' = [locals EXCEPT !.method = "show_all", !.ret = Returns(Number("", 0, 0))]
    /\ output' = (IF locals.cls = "Bitwise" THEN BitwiseHeader(locals) ELSE <<>>)
                   \o ShowAll(locals)
    /\ UNCHANGED <<input, pc, account, firstRun, writes, shown, file>>

NextOps ==
    \/ NewObject /\ UNCHANGED storeVars
    \/ CallMethod /\ UNCHANGED storeVars
    \/ ShowAllCall /\ UNCHANGED storeVars

SpecOps == InitOps /\ [][NextOps]_vars

\* the last call was the method of an Arithmetic object
ArithCall(method) == locals.cls = "Arithmetic" /\ locals.method = method

\* a == b * (a // b) + (a % b), with the remainder on the side of b
FloorQuotient(a, b, q, r) ==
    /\ a = b * q + r
    /\ b > 0 => 0 <= r /\ r < b
    /\ b < 0 => b < r /\ r <= 0

\* C33 as stated: division, integer_division and modulo each raise
\* ZeroDivisionError whenever b == 0, for every a, and for integers a and
\* b # 0 the floor quotient and the remainder satisfy a == b * (a // b) + a % b.
C33_ZeroDivisionForEveryA ==
    /\ \A m \in {"division", "integer_division", "modulo"} :
          ArithCall(m) /\ IsZero(locals.b) => locals.ret.exc = "ZeroDivisionError"
    /\ \A m \in {"integer_division", "modulo"} :
          ArithCall(m) /\ locals.a.type = "int" /\ locals.b.type = "int"
                       /\ ~IsZero(locals.b)
          => FloorQuotient(locals.a.re, locals.b.re,
                           Arith("integer_division", locals.a, locals.b).value.re,
                           Arith("modulo", locals.a, locals.b).value.re)

\* C33: division raises ZeroDivisionError whenever b == 0, for every a;
\* integer_division and modulo raise TypeError when an operand is complex,
\* whatever b is, and ZeroDivisionError when b == 0 and no operand is
\* complex; for integers a and b # 0 they return integers q and r with
\* a == b * q + r and r between 0 and b, the floor quotient and its remainder.
C33_DivisionByZero ==
    /\ ArithCall("division") /\ IsZero(locals.b)
       => locals.ret.exc = "ZeroDivisionError"
    /\ \A m \in {"integer_division", "modulo"} :
          /\ ArithCall(m) /\ (IsComplex(locals.a) \/ IsComplex(locals.b))
             => locals.ret.exc = "TypeError"
          /\ ArithCall(m) /\ IsZero(locals.b)
                /\ ~IsComplex(locals.a) /\ ~IsComplex(locals.b)
             => locals.ret.exc = "ZeroDivisionError"
          /\ ArithCall(m) /\ locals.a.type = "int" /\ locals.b.type = "int"
                /\ ~IsZero(locals.b)
             => /\ locals.ret.exc = ""
                /\ locals.ret.value.type = "int"
                /\ locals.ret.value =
                      Arith(m, locals.a, locals.b).value
                /\ FloorQuotient(locals.a.re, locals.b.re,
                      Arith("integer_division", locals.a, locals.b).value.re,
                      Arith("modulo", locals.a, locals.b).value.re)

\* -3 // 2 has returned -2, the quotient rounded down
C33_Witness ==
    /\ ArithCall("integer_division")
    /\ locals.a = Number("int", 0 - 3, 0)
    /\ locals.b = Number("int", 2, 0)
    /\ locals.ret = Returns(Number("int", 0 - 2, 0))

\* line is the line of the operation op of the object obj: its expression
\* with the operands filled in, then the result with its type when the
\* method returns and the name of the error with its message when it raises
LineOf(line, obj, op) ==
    /\ line.expr = [template |-> op[1], a |-> obj.a, b |-> obj.b]
    /\ Evaluate(obj, op[2]).exc = ""
       => /\ line.outcome.exc = ""
          /\ line.outcome.value = Evaluate(obj, op[2]).value
    /\ Evaluate(obj, op[2]).exc # ""
       => /\ line.outcome.exc = Evaluate(obj, op[2]).exc
          /\ line.outcome.msg = Evaluate(obj, op[2]).msg

\* lines are the lines of the declared operations of obj, one each, in the
\* order of the declaration
LinesOf(lines, obj) ==
    /\ Len(lines) = Len(Operations(obj.cls))
    /\ \A i \in 1..Len(lines) : LineOf(lines[i], obj, Operations(obj.cls)[i])

---------------------------------------------------------------------------
(* A balance is shown with format_money and the text shown is typed at     *)
(* ask_money_amount.  A balance is kept by its decimal digits, so that it   *)
(* can have more digits than the decimal context: balances are integers of  *)
(* any size, the sum of the deposits.                                       *)

\* the largest of the consecutive balances of the model, in cents
MaxShown == 120

\* format_money on the decimal digits of cents >= 0: cents // 100 is all but
\* the last two digits, cents % 100 the last two
FormatCents(digs) ==
    (IF Len(digs) > 2 THEN SubSeq(digs, 1, Len(digs) - 2) ELSE <<"0">>)
       \o <<".">>
       \o ZFill(Significant(SubSeq(digs, Max(1, Len(digs) - 1), Len(digs))), 2)

\* the smallest balance with more digits than the decimal context has
BeyondPrecision == <<"1">> \o [i \in 1..DecimalPrec |-> "0"]

\* the balances of the model, by their digits
BalanceTexts ==
    {Str(c) : c \in 0..MaxShown} \cup {Str(10050), Str(99999), BeyondPrecision}

\* show_balance: the balance is formatted
ShowFormatted ==
    /\ pc = "view"
    /\ \E digs \in BalanceTexts :
          locals' = [balance |-> digs,
                     text |-> IF Len(digs) <= IntDigits THEN FormatMoney(Int10(digs))
                              ELSE FormatCents(digs),
                     ret |-> <<>>]
    /\ pc' = "ask_shown"
    /\ input' = <<>>
    /\ output' = Prompt("prompt_money")
    /\ UNCHANGED <<account, firstRun, writes, shown, file>>

\* ask_money_amount: the text shown is the line read
AskMoneyShown ==
    /\ pc = "ask_shown"
    /\ input' = locals.text
    /\ \E r \in {MoneyOutcome(locals.text)} :
          CASE r.res = "retry" ->
                 /\ output' = <<Msg(r.err, <<>>)>> \o Prompt("prompt_money")
                 /\ UNCHANGED <<pc, locals>>
            [] r.res = "raise" ->
                 /\ pc' = "crash"
                 /\ output' = <<>>
                 /\ UNCHANGED locals
            [] r.res = "ok" ->
                 /\ pc' = "view_returned"
                 /\ output' = <<>>
                 /\ locals' = [locals EXCEPT !.ret = <<r.cents>>]
    /\ UNCHANGED <<account, firstRun, writes, shown, file>>

NextMoney ==
    \/ ShowFormatted /\ UNCHANGED storeVars
    \/ AskMoneyShown /\ UNCHANGED storeVars
    \/ ViewContinue /\ UNCHANGED storeVars

SpecMoney == InitView /\ [][NextMoney]_vars

\* text is digits, ".", and exactly two digits
ShownAsMoney(text) ==
    /\ Len(text) >= 4
    /\ text[Len(text) - 2] = "."
    /\ IsDigit(SubSeq(text, 1, Len(text) - 3))
    /\ IsDigit(SubSeq(text, Len(text) - 1, Len(text)))

\* the text shown has been typed and ask_money_amount has returned or raised
ShownTyped == pc \in {"view_returned", "crash"} /\ input # <<>>

\* C35: for every balance c >= 0, format_money(c) is c div 100, ".", and
\* c mod 100 as exactly two digits, and ask_money_amount returns c when that
\* text is typed at it.
C35_FormatRoundTrip ==
    ShownTyped
    => /\ ShownAsMoney(locals.text)
       /\ Significant(SubSeq(locals.text, 1, Len(locals.text) - 3)
                        \o SubSeq(locals.text, Len(locals.text) - 1, Len(locals.text)))
            = Significant(locals.balance)
       /\ pc = "view_returned"
       /\ locals.ret = <<Int10(locals.balance)>>

\* the same for the balances within the decimal context
RoundTripWithinPrecision ==
    ShownTyped /\ Len(locals.balance) <= IntDigits
    => /\ ShownAsMoney(locals.text)
       /\ locals.text = FormatCents(locals.balance)
       /\ pc = "view_returned"
       /\ locals.ret = <<Int10(locals.balance)>>

---------------------------------------------------------------------------
(* SmartFanApp: requests for the current mode, and the chain of events *)

\* the step is a call of set_mode, up or down that asks for the mode the
\* fan is in
AsksCurrentMode ==
    /\ fan.built
    /\ fan' # fan
    /\ \/ fan'.op = "set_mode" /\ fan'.arg = fan.mode
       \/ fan'.op = "up" /\ fan.mode = MaxMode
       \/ fan'.op = "down" /\ fan.mode = MinMode

\* C38: a request for the mode the fan is in (set_mode with the current
\* mode, up() at mode 3, down() at mode 0) changes nothing: it returns the
\* "No change" message of the current mode, appends no event to the history
\* and leaves the mode, mode_changes, time_in_mode_s and the last timestamp
\* of the statistics as they were.
C38_NoChange ==
    [][AsksCurrentMode =>
          /\ fan'.ret = ModeMessage("No change", fan.mode)
          /\ fan'.exc = ""
          /\ fan'.mode = fan.mode
          /\ fan'.history = fan.history
          /\ fan'.stats.mode_changes = fan.stats.mode_changes
          /\ fan'.stats.time_in_mode_s = fan.stats.time_in_mode_s
          /\ fan'.stats.last_ts = fan.stats.last_ts
          /\ fan'.stats = fan.stats]_vars

\* up() was called at mode 3 after the clock had moved on: "No change", one
\* event in the history, the statistics still at the time of the change
C38_Witness ==
    /\ fan.built
    /\ fan.op = "up"
    /\ fan.mode = MaxMode
    /\ fan.ret = ModeMessage("No change", MaxMode)
    /\ Len(fan.history) = 1
    /\ fan.stats.last_ts # <<>>
    /\ fan.stats.last_ts[1] < fan.clock

\* the events of history follow one another from mode to the current mode
Chain(history, first, current) ==
    /\ \A i \in 1..Len(history) :
          /\ history[i].old_mode # history[i].new_mode
          /\ history[i].old_mode \in Modes
          /\ history[i].new_mode \in Modes
    /\ history # <<>> => history[1].old_mode = first
    /\ \A i \in 2..Len(history) : history[i].old_mode = history[i - 1].new_mode
    /\ current = (IF history = <<>> THEN first ELSE history[Len(history)].new_mode)

\* C39: whatever is called on a SmartFanApp that starts at mode 0 with an
\* empty history, the history is a chain: in every event old_mode and
\* new_mode differ and lie in 0..3, the first event starts at mode 0, every
\* event starts at the mode the one before ended at, and the last event
\* ends at the current mode (which is 0 while the history is empty); the
\* history only grows, by events appended at its end.
C39_HistoryChain ==
    /\ [](fan.built => Chain(fan.history, 0, fan.mode))
    /\ [][fan.built =>
             /\ Len(fan'.history) \in {Len(fan.history), Len(fan.history) + 1}
             /\ SubSeq(fan'.history, 1, Len(fan.history)) = fan.history]_vars

\* 0 -> 3 by set_mode, 3 -> 2 by down(), 2 -> 3 by up(): three events
C39_Witness ==
    /\ fan.built
    /\ fan.mode = 3
    /\ Len(fan.history) = 3
    /\ fan.history[1].action = "SET" /\ fan.history[1].new_mode = 3
    /\ fan.history[2].action = "DOWN" /\ fan.history[2].new_mode = 2
    /\ fan.history[3].action = "UP" /\ fan.history[3].old_mode = 2

---------------------------------------------------------------------------
(* generate_unique_account_number(digits) with a fair random source: every  *)
(* value of secrets.randbelow(10**digits) is drawn again and again.  One    *)
(* process calls it on stores that hold none, some, all but one and all of  *)
(* the numbers of that length.                                              *)

\* the argument digits of the calls of the model
GenDigits == 1

\* the values secrets.randbelow(10**digits) can return
GenNumbers == 0..(Pow10(GenDigits) - 1)

\* which numbers the store holds when the process starts
StoredSets ==
    {{}, {0}, {1}, {Pow10(GenDigits) - 1},
     GenNumbers \ {0}, GenNumbers \ {Pow10(GenDigits) - 1},
     GenNumbers \ {Pow10(GenDigits) \div 2}, GenNumbers,
     {n \in GenNumbers : n % 2 = 0}, {n \in GenNumbers : n % 2 = 1},
     {n \in GenNumbers : n < Pow10(GenDigits) \div 2},
     {n \in GenNumbers : n >= Pow10(GenDigits) \div 2}}

\* the store that holds an account under each number of ns
StoreOf(ns) ==
    Save([accounts |->
            [k \in {Candidate(n, GenDigits) : n \in ns} |->
                AsDict(MakeAccount(k, <<"A">>, <<"B">>, <<"I", "D">>, <<"0", "0">>,
                                   <<"1", "1">>, 0, <<"2", "0", "2", "6">>))]])

InitGen ==
    /\ input = <<>>
    /\ pc = "start"
    /\ account = None
    /\ firstRun = FALSE
    /\ locals = NoLocals
    /\ output = <<>>
    /\ writes = 0
    /\ shown = <<>>
    /\ file \in {StoreOf(ns) : ns \in StoredSets}
    /\ tmp = NoTmp
    /\ procs = [p \in {1} |-> Idle]
    /\ io = NoIo
    /\ ledger = NoLedger
    /\ fan = NoFan

\* generate_unique_account_number(digits) is called and enters its loop
CallGenerate ==
    /\ procs[1].pc = "idle"
    /\ procs' = [procs EXCEPT ![1] = [@ EXCEPT !.pc = "draw", !.op = "generate"]]
    /\ UNCHANGED <<file, tmp>>

\* one iteration of the loop in which randbelow returns n
DrawNumber(n) ==
    /\ procs[1].pc = "draw"
    /\ \E acc \in {Candidate(n, GenDigits)} :
          IF ~AccountExists(file, acc)
          THEN procs' = [procs EXCEPT ![1] =
                   [@ EXCEPT !.pc = "returned", !.number = acc, !.ret = <<acc>>]]
          ELSE procs' = [procs EXCEPT ![1] = [@ EXCEPT !.number = acc]]
    /\ UNCHANGED <<file, tmp>>

NextGen ==
    \/ CallGenerate /\ UNCHANGED atmVars
    \/ \E n \in GenNumbers : DrawNumber(n) /\ UNCHANGED atmVars
    \/ Continue(1) /\ UNCHANGED atmVars

\* the random source is fair: no value is left out for ever
SpecGen ==
    /\ InitGen
    /\ [][NextGen]_vars
    /\ \A n \in GenNumbers : WF_vars(DrawNumber(n) /\ UNCHANGED atmVars)

\* a number of the length asked for is not stored
SomeFree == \E n \in GenNumbers : Candidate(n, GenDigits) \notin DOMAIN Load(file).accounts

\* C40: generate_unique_account_number(digits) terminates whenever at least
\* one number of digits digits is not stored and every value is drawn
\* eventually; it writes nothing to the store; and when every number of that
\* length is stored it never returns.
C40_GenerateTerminates ==
    /\ (procs[1].pc = "draw" /\ SomeFree) ~> (procs[1].pc = "returned")
    /\ [][procs[1].pc = "draw" => file' = file /\ tmp' = tmp]_vars
    /\ [][procs[1].pc = "draw" /\ ~SomeFree => procs'[1].pc = "draw"]_vars

\* the call has returned the one number that was free
C40_Witness ==
    /\ procs[1].pc = "returned"
    /\ procs[1].op = "generate"
    /\ Cardinality(DOMAIN Load(file).accounts) = Pow10(GenDigits) - 1
    /\ procs[1].ret = <<procs[1].number>>
    /\ procs[1].number \notin DOMAIN Load(file).accounts

====
